---- MODULE Spec2Model ----
(***************************************************************************)
(* Result scheduling and bet settlement of the race-prediction system.     *)
(*                                                                         *)
(* Persistent state is the SQLite database (predictions,                   *)
(* prediction_outcomes, agent_statistics).  The results service keeps the  *)
(* watch set scheduled_checks in memory and runs two cooperative tasks     *)
(* (listen_loop, check_results_loop).  The manual tools (/evaluate,        *)
(* evaluate_pending.py, evaluate_all_results.py) are separate processes    *)
(* that share the database.                                                *)
(*                                                                         *)
(* Encoding.  Time is in minutes; `now` is the UTC instant.  Money is in   *)
(* cents; odds and dividends are in hundredths (4560 is 45.60), so a       *)
(* product stake * rate is (stake * rate) \div 100.  Python None and SQL   *)
(* NULL in a numeric slot are PyNone.  A Python dict is a function whose   *)
(* DOMAIN is the set of keys present.                                      *)
(*                                                                         *)
(* Specifications.  Spec is the results service with the orchestrator      *)
(* saving predictions; each behaviour follows one race (monitored), since  *)
(* the service handles the races of a tick one after the other and shares *)
(* nothing between them but the database.  Messages, restarts and new      *)
(* predictions arrive before minute MaxTime; afterwards the service runs   *)
(* on until its watch set is empty.  FairSpec adds that the loops keep     *)
(* running.  ToolSpec is the manual tools over all races, at one instant.  *)
(* EngineSpec is the settlement engine alone: its initial states draw one  *)
(* structured bet, one race result and one copy of evaluate_prediction,    *)
(* and each step settles a new prediction carrying that bet.  BetSpec      *)
(* constructs one bet from drawn arguments.  FetchSpec is a behaviour of   *)
(* the service or a behaviour of a tool, the store never failing.          *)
(* AbandonSpec is Spec begun at the last retry of a race, ZoneSpec         *)
(* is Spec on a host in UTC or in Perth time, and MonitorSpec is the       *)
(* monitor service polling around the start of a race.                     *)
(***************************************************************************)
EXTENDS Integers, Sequences, FiniteSets, TLC

VARIABLES
    now,                 \* wall clock, UTC instant in minutes
    monitored,           \* the race the monitor service follows in this behaviour
    local_off,           \* UTC offset of the results service's local time zone
    predictions,         \* table predictions, in rowid order
    prediction_outcomes, \* table prediction_outcomes, in rowid order
    agent_statistics,    \* table agent_statistics, one row per agent
    scheduled_checks,    \* ResultsEvaluationService.scheduled_checks (insertion order)
    races_to_check,      \* check_results_loop: races of this tick not yet processed
    inflight,            \* race whose get_race_results is being awaited, or NoRace
    tool,                \* the manual tool run in progress
    published,           \* messages put on results:evaluated by the last step
    log,                 \* what the last step of the results service printed
    sample_bet,          \* settlement engine: the structured_bet under evaluation
    sample_result,       \* settlement engine: the race_result object passed in
    sample_path,         \* settlement engine: the copy of evaluate_prediction run
    evaluations,         \* settlement engine: what each run returned
    bet_input,           \* bet models: the arguments a bet is constructed from
    bet_built,           \* bet models: what the constructor gave
    tick_fetches,        \* history: the races get_race_results was called for since the tick began
    run_fetches,         \* history: the races get_race_results was called for since the tool started
    abandoned,           \* history: the races given up on and not scheduled again since
    analyzed_races,      \* monitor: the redis set monitor:analyzed_races
    analysis_published,  \* monitor: messages put on race:ready_for_analysis, per race
    check_published      \* monitor: messages put on race:schedule_result_check, per race

sample_vars == <<sample_bet, sample_result, sample_path, evaluations>>
bet_vars == <<bet_input, bet_built>>
fetch_vars == <<tick_fetches, run_fetches>>
history_vars == <<abandoned>>
monitor_vars == <<analyzed_races, analysis_published, check_published>>

vars == <<now, local_off, monitored, predictions, prediction_outcomes, agent_statistics,
          scheduled_checks, races_to_check, inflight, tool, published, log,
          sample_vars, bet_vars, fetch_vars, history_vars, monitor_vars>>

-----------------------------------------------------------------------------
(* Bounds of the model *)

MaxTime == 4
MaxDown == 1
MaxPredictions == 3
MaxOutcomes == 3
MaxHorse == 4
MaxRuns == 2

-----------------------------------------------------------------------------
(* Program constants *)

result_wait_minutes == 15
result_max_retries == 5
RetryIntervalMinutes == 3
TickMinutes == 1
minutes_before_race == 3
PollMinutes == 1
DayMinutes == 1440
PerthOffset == 480
MaxFinishers == 4

\* minutes after the last admission in which every watched race is checked
\* result_max_retries times
DrainMinutes == 1 + (result_max_retries - 1) * RetryIntervalMinutes

PyNone == -1
NoTz == 9999

Agents == {"gemini", "grok"}
Races == {"r1", "r2"}
NoRace == "none"
BetTypes == <<"win", "place", "exacta", "quinella", "trifecta", "first4", "qps">>
BetTypeSet == {BetTypes[i] : i \in 1..Len(BetTypes)}

-----------------------------------------------------------------------------
(* Sequences *)

Range(s) == {s[i] : i \in 1..Len(s)}

RECURSIVE SumSeq(_)
SumSeq(s) == IF s = <<>> THEN 0 ELSE Head(s) + SumSeq(Tail(s))

Take(s, n) == SubSeq(s, 1, IF Len(s) < n THEN Len(s) ELSE n)

RECURSIVE Reverse(_)
Reverse(s) == IF s = <<>> THEN <<>> ELSE Append(Reverse(Tail(s)), Head(s))

-----------------------------------------------------------------------------
(* datetime: wall is the clock reading, off the UTC offset (NoTz if naive) *)

DT(w, o) == [wall |-> w, off |-> o]
PlusMinutes(dt, m) == [dt EXCEPT !.wall = @ + m]
NowIn(tz) == IF tz = NoTz THEN DT(now + local_off, NoTz) ELSE DT(now + tz, tz)
\* a - b for two datetimes of the same awareness
Minus(a, b) == IF a.off = NoTz THEN a.wall - b.wall
               ELSE (a.wall - a.off) - (b.wall - b.off)

\* ISO-8601 text: the clock reading and the offset suffix
isoformat(dt) == [wall |-> dt.wall,
                  suffix |-> IF dt.off = NoTz THEN ""
                             ELSE IF dt.off = 0 THEN "+00:00" ELSE "+08:00"]
ReplaceZ(s) == [s EXCEPT !.suffix = IF @ = "Z" THEN "+00:00" ELSE @]
fromisoformat(s) == DT(s.wall, CASE s.suffix = "" -> NoTz
                                 [] s.suffix = "+00:00" -> 0
                                 [] s.suffix = "+08:00" -> PerthOffset)

-----------------------------------------------------------------------------
(* Python values *)

B(b) == IF b THEN 1 ELSE 0
Truthy(v) == v # PyNone /\ v # 0
Get(d, k, default) == IF k \in DOMAIN d THEN d[k] ELSE default
EmptyDict == [k \in {} |-> 0]
Mul(amount, rate) == (amount * rate) \div 100

\* a finisher of finishing_order: its number and the price keys it carries
Finisher(n, prices) == [number |-> n, prices |-> prices]
\* a dividend as the parser produces it, and as a bare number
DivDict(combination, amount) ==
    [kind |-> "dict", combination |-> combination, amount |-> amount, num |-> 0]
DivNum(n) == [kind |-> "num", combination |-> <<>>, amount |-> <<>>, num |-> n]
DivTruthy(d) == IF d.kind = "dict" THEN TRUE ELSE d.num # 0

\* a bet of structured_bet: horses in the order the bet names them
Bet(horses, amount) == [horses |-> horses, amount |-> amount]

Numbers(fo, n) == [i \in 1..Len(Take(fo, n)) |-> fo[i].number]

-----------------------------------------------------------------------------
(* The per-type win rules, as every copy of evaluate_prediction states them *)

is_win(bet, fo) == B(fo[1].number = bet.horses[1])

is_place(bet, fo) == B(bet.horses[1] \in Range(Numbers(fo, 3)))

is_exacta(bet, fo) ==
    IF Len(fo) < 2 THEN PyNone
    ELSE B(fo[1].number = bet.horses[1] /\ fo[2].number = bet.horses[2])

\* quinella compared in order, as a list
is_quinella_ordered(bet, fo) ==
    LET top_two == IF Len(fo) < 2 THEN <<>> ELSE <<fo[1].number, fo[2].number>>
    IN  B(bet.horses = top_two)

is_quinella(bet, fo) ==
    LET top_two == IF Len(fo) < 2 THEN {} ELSE {fo[1].number, fo[2].number}
    IN  B(Range(bet.horses) = top_two)

is_trifecta(bet, fo) ==
    IF Len(fo) < 3 THEN PyNone
    ELSE B(/\ fo[1].number = bet.horses[1]
           /\ fo[2].number = bet.horses[2]
           /\ fo[3].number = bet.horses[3])

is_first4(bet, fo) == B(bet.horses = Numbers(fo, 4))

is_qps(bet, fo) ==
    B(Cardinality(Range(bet.horses) \cap Range(Numbers(fo, 3))) >= 2)

BetResult(t, bet, fo) ==
    CASE t = "win" -> is_win(bet, fo)
      [] t = "place" -> is_place(bet, fo)
      [] t = "exacta" -> is_exacta(bet, fo)
      [] t = "quinella" -> is_quinella(bet, fo)
      [] t = "trifecta" -> is_trifecta(bet, fo)
      [] t = "first4" -> is_first4(bet, fo)
      [] t = "qps" -> is_qps(bet, fo)

\* a payout slot: has = the key is set in payouts, raised = the statement raised
Pay(has, pay, raised) == [has |-> has, pay |-> pay, raised |-> raised]
NoPay == Pay(FALSE, 0, FALSE)

\* the odds taken from the tote price before the fixed price
OddsPay_tote(bet, horse, fixed, tote) ==
    LET t == Get(horse.prices, tote, 0)
        odds == IF Truthy(t) THEN t ELSE Get(horse.prices, fixed, 0)
    IN  IF odds = PyNone THEN Pay(FALSE, 0, TRUE)
        ELSE Pay(TRUE, Mul(bet.amount, odds), FALSE)

\* odds = horse.get(fixed, 0) or horse.get(tote, 0); payouts[..] = amount * odds
OddsPay(bet, horse, fixed, tote) ==
    LET f == Get(horse.prices, fixed, 0)
        odds == IF Truthy(f) THEN f ELSE Get(horse.prices, tote, 0)
    IN  IF odds = PyNone THEN Pay(FALSE, 0, TRUE)
        ELSE Pay(TRUE, Mul(bet.amount, odds), FALSE)

win_payout(bet, fo) ==
    IF Truthy(is_win(bet, fo)) THEN OddsPay(bet, fo[1], "fixed_win", "tote_win")
    ELSE NoPay

place_payout(bet, fo) ==
    IF Truthy(is_place(bet, fo))
    THEN LET i == CHOOSE i \in 1..Len(Take(fo, 3)) :
                     /\ fo[i].number = bet.horses[1]
                     /\ \A j \in 1..(i - 1) : fo[j].number # bet.horses[1]
         IN  OddsPay(bet, fo[i], "fixed_place", "tote_place")
    ELSE NoPay

-----------------------------------------------------------------------------
(* Strings are sequences of one-character strings *)

Digits == <<"0", "1", "2", "3", "4", "5", "6", "7", "8", "9">>
IsDigit(c) == c \in Range(Digits)
DigitVal(c) == (CHOOSE i \in 1..10 : Digits[i] = c) - 1
AllDigits(s) == \A i \in 1..Len(s) : IsDigit(s[i])

RECURSIVE IntVal(_)
IntVal(s) == IF s = <<>> THEN 0
             ELSE IntVal(SubSeq(s, 1, Len(s) - 1)) * 10 + DigitVal(s[Len(s)])

\* s.replace(c, "")
Remove(s, c) == SelectSeq(s, LAMBDA x : x # c)

\* float(text) in hundredths, PyNone when float() raises ValueError.
\* Digits after the second decimal place are dropped.
ParseFloat(s) ==
    LET dots == {i \in 1..Len(s) : s[i] = "."}
        dot == IF dots = {} THEN Len(s) + 1 ELSE CHOOSE i \in dots : TRUE
        ip == SubSeq(s, 1, dot - 1)
        fp == SubSeq(s, dot + 1, Len(s))
        frac == IF Len(fp) = 0 THEN 0
                ELSE IF Len(fp) = 1 THEN DigitVal(fp[1]) * 10
                ELSE DigitVal(fp[1]) * 10 + DigitVal(fp[2])
    IN  IF /\ Cardinality(dots) <= 1
           /\ AllDigits(ip) /\ AllDigits(fp)
           /\ Len(ip) + Len(fp) >= 1
        THEN IntVal(ip) * 100 + frac
        ELSE PyNone

\* float(text.replace("$", "").replace(",", ""))
ParseCurrency(s) == ParseFloat(Remove(Remove(s, "$"), ","))

\* [int(p) for p in combo.split("-")]: <<ok, numbers>>
RECURSIVE Split(_, _)
Split(s, c) ==
    LET hits == {i \in 1..Len(s) : s[i] = c}
    IN  IF hits = {} THEN <<s>>
        ELSE LET i == CHOOSE i \in hits : \A j \in hits : i <= j
             IN  <<SubSeq(s, 1, i - 1)>> \o Split(SubSeq(s, i + 1, Len(s)), c)

ParseCombination(s) ==
    LET parts == Split(s, "-")
    IN  IF \A i \in 1..Len(parts) : parts[i] # <<>> /\ AllDigits(parts[i])
        THEN [ok |-> TRUE, nums |-> [i \in 1..Len(parts) |-> IntVal(parts[i])]]
        ELSE [ok |-> FALSE, nums |-> <<>>]

-----------------------------------------------------------------------------
(* Payout of a combination bet, one operator per copy of the code *)

\* services/results: payouts[t] = bet["amount"] * race_result.dividends[key]
results_combo_payout(bet, won, dividends, key) ==
    IF Truthy(won) /\ key \in DOMAIN dividends /\ DivTruthy(dividends[key])
    THEN IF dividends[key].kind = "dict" THEN Pay(FALSE, 0, TRUE)
         ELSE Pay(TRUE, Mul(bet.amount, dividends[key].num), FALSE)
    ELSE NoPay

\* evaluate_pending.py and /evaluate: div_val from the dict's amount, parsed
pending_combo_payout(bet, won, dividends, key) ==
    IF Truthy(won) /\ key \in DOMAIN dividends /\ DivTruthy(dividends[key])
    THEN IF dividends[key].kind = "dict"
         THEN LET v == ParseCurrency(dividends[key].amount)
              IN  IF v = PyNone THEN Pay(FALSE, 0, TRUE)
                  ELSE Pay(TRUE, Mul(bet.amount, v), FALSE)
         ELSE Pay(TRUE, Mul(bet.amount, dividends[key].num), FALSE)
    ELSE NoPay

\* evaluate_all_results.py: parse_dividend_amount(dividends.get(key))
parse_dividend_amount(dividends, key) ==
    IF key \notin DOMAIN dividends THEN [raised |-> FALSE, value |-> 0]
    ELSE IF dividends[key].kind = "num"
         THEN IF dividends[key].num = 0 THEN [raised |-> FALSE, value |-> 0]
              ELSE [raised |-> TRUE, value |-> 0]
    ELSE IF dividends[key].amount = <<>> THEN [raised |-> FALSE, value |-> 0]
    ELSE LET v == ParseCurrency(dividends[key].amount)
         IN  [raised |-> FALSE, value |-> IF v = PyNone THEN 0 ELSE v]

all_combo_payout(bet, won, dividends, key) ==
    IF Truthy(won)
    THEN LET d == parse_dividend_amount(dividends, key)
         IN  IF d.raised THEN Pay(FALSE, 0, TRUE)
             ELSE IF d.value # 0 THEN Pay(TRUE, Mul(bet.amount, d.value), FALSE)
             ELSE NoPay
    ELSE NoPay

-----------------------------------------------------------------------------
(* evaluate_prediction: the four copies *)

SumValues(f) ==
    SumSeq([i \in 1..Len(BetTypes) |-> Get(f, BetTypes[i], 0)])

Evaluation(raised, fo, bet_results, payouts, total_bet_amount) ==
    [raised |-> raised, finishing_order |-> fo, bet_results |-> bet_results,
     payouts |-> payouts, total_bet_amount |-> total_bet_amount]

total_bet_amount_of(structured_bet) ==
    SumValues([t \in DOMAIN structured_bet |-> structured_bet[t].amount])

Evaluate(structured_bet, fo, dividends, ComboPayout(_, _, _, _), first4_key) ==
    LET slot == [t \in DOMAIN structured_bet |->
                   CASE t = "win" -> win_payout(structured_bet[t], fo)
                     [] t = "place" -> place_payout(structured_bet[t], fo)
                     [] t = "first4" ->
                          ComboPayout(structured_bet[t],
                                      is_first4(structured_bet[t], fo),
                                      dividends, first4_key)
                     [] OTHER ->
                          ComboPayout(structured_bet[t],
                                      BetResult(t, structured_bet[t], fo),
                                      dividends, t)]
    IN  Evaluation(\E t \in DOMAIN structured_bet : slot[t].raised,
                   fo,
                   [t \in DOMAIN structured_bet |->
                      BetResult(t, structured_bet[t], fo)],
                   [t \in {u \in DOMAIN structured_bet : slot[u].has} |->
                      slot[t].pay],
                   total_bet_amount_of(structured_bet))

\* ResultsEvaluationService.evaluate_prediction
evaluate_prediction(structured_bet, race_result) ==
    Evaluate(structured_bet, race_result.finishing_order, race_result.dividends,
             results_combo_payout, "first4")

\* evaluate_pending.py evaluate_prediction
pending_evaluate_prediction(structured_bet, race_result) ==
    Evaluate(structured_bet, race_result.finishing_order, race_result.dividends,
             pending_combo_payout, "first4")

\* TelegramService._evaluate_prediction_for_cmd
evaluate_prediction_for_cmd(structured_bet, race_result) ==
    Evaluate(structured_bet, race_result.finishing_order, race_result.dividends,
             pending_combo_payout, "first4")

\* evaluate_all_results.py extract_numbers_from_dividends
RECURSIVE ExtractFrom(_, _)
ExtractFrom(keys, dividends) ==
    IF keys = <<>> THEN [raised |-> FALSE, nums |-> <<>>]
    ELSE IF Head(keys) \notin DOMAIN dividends
         THEN ExtractFrom(Tail(keys), dividends)
    ELSE IF dividends[Head(keys)].kind = "num"
         THEN [raised |-> TRUE, nums |-> <<>>]
    ELSE LET c == ParseCombination(dividends[Head(keys)].combination)
         IN  IF dividends[Head(keys)].combination # <<>> /\ c.ok
                /\ Len(c.nums) >= 2
             THEN [raised |-> FALSE, nums |-> c.nums]
             ELSE ExtractFrom(Tail(keys), dividends)

extract_numbers_from_dividends(dividends) ==
    ExtractFrom(<<"trifecta", "first_4", "exacta", "quinella">>, dividends)

\* evaluate_all_results.py evaluate_prediction: first writes the numbers of the
\* dividend combination into finishers whose number is 0
FillNumbers(fo, order_numbers) ==
    [i \in 1..Len(fo) |->
       IF i <= Len(order_numbers) /\ fo[i].number = 0
       THEN [fo[i] EXCEPT !.number = order_numbers[i]] ELSE fo[i]]

all_evaluate_prediction(structured_bet, race_result) ==
    LET x == extract_numbers_from_dividends(race_result.dividends)
        fo == FillNumbers(race_result.finishing_order, x.nums)
        e == Evaluate(structured_bet, fo, race_result.dividends,
                      all_combo_payout, "first_4")
    IN  [e EXCEPT !.raised = @ \/ x.raised]

-----------------------------------------------------------------------------
(* The database *)

\* the columns of predictions, in the order SELECT p.* returns them
PredictionColumns ==
    <<"prediction_id", "race_id", "agent_id", "race_url", "race_location",
      "race_number", "race_start_time", "analysis_summary", "confidence_score",
      "risk_level", "key_factors", "structured_bet_json", "created_at",
      "predicted_at", "odds_snapshot_json">>

\* StatisticsRepository.get_pending_predictions: "structured_bet" is
\* json.loads(row[10]); a column that holds no bet makes
\* structured_bet.get(..) raise in _evaluate_prediction_for_cmd
cmd_structured_bet_column == PredictionColumns[10 + 1]

\* a row of predictions
Prediction(id, agent, race_url, race_start_time, structured_bet) ==
    [prediction_id |-> id, agent |-> agent, race_url |-> race_url,
     race_start_time |-> race_start_time, structured_bet |-> structured_bet]

\* column race_start_time: NULL, or the ISO text
NullStart == [isnull |-> TRUE, wall |-> 0, suffix |-> ""]
StartText(iso) == [isnull |-> FALSE, wall |-> iso.wall, suffix |-> iso.suffix]

\* agent_statistics row as the migration creates it (every column DEFAULT 0)
ZeroStatistics ==
    [total_predictions |-> 0, total_bets |-> 0, total_wins |-> 0,
     total_losses |-> 0, total_bet_amount |-> 0, total_payout |-> 0,
     net_profit_loss |-> 0, roi_percentage |-> [num |-> 0, den |-> 1],
     bets_placed |-> [t \in BetTypeSet |-> 0],
     bets_won |-> [t \in BetTypeSet |-> 0]]

\* 1 if bet_results.get(t) else 0 if t in bet_results else None
ResultColumn(bet_results, t) ==
    IF Truthy(Get(bet_results, t, 0)) THEN 1
    ELSE IF t \in DOMAIN bet_results THEN 0 ELSE PyNone

\* evaluate_all_results.py: bet_results.get(t, False)
AllResultColumn(bet_results, t) == Get(bet_results, t, 0)

OutcomeRow(prediction_id, e, dividends, Column(_, _)) ==
    [prediction_id |-> prediction_id,
     finishing_order |-> e.finishing_order,
     dividends |-> dividends,
     result |-> [t \in BetTypeSet |-> Column(e.bet_results, t)],
     payout |-> [t \in BetTypeSet |-> Get(e.payouts, t, 0)],
     total_bet_amount |-> e.total_bet_amount,
     total_payout |-> SumValues(e.payouts),
     net_profit_loss |-> SumValues(e.payouts) - e.total_bet_amount]

\* the UPDATE with the ROI taken from the totals before this outcome
UpdatedStatistics_stale(row, bet_results, total_bet_amount, total_payout, net_profit_loss) ==
    LET total_bets == Cardinality(DOMAIN bet_results)
        total_wins == Cardinality({t \in DOMAIN bet_results : Truthy(bet_results[t])})
        total_losses == total_bets - total_wins
    IN  [total_predictions |-> row.total_predictions + 1,
         total_bets |-> row.total_bets + total_bets,
         total_wins |-> row.total_wins + total_wins,
         total_losses |-> row.total_losses + total_losses,
         total_bet_amount |-> row.total_bet_amount + total_bet_amount,
         total_payout |-> row.total_payout + total_payout,
         net_profit_loss |-> row.net_profit_loss + net_profit_loss,
         roi_percentage |->
            IF row.total_bet_amount > 0
            THEN [num |-> row.total_payout - row.total_bet_amount,
                  den |-> row.total_bet_amount]
            ELSE [num |-> 0, den |-> 1],
         bets_placed |-> [t \in BetTypeSet |->
                            row.bets_placed[t] + B(t \in DOMAIN bet_results)],
         bets_won |-> [t \in BetTypeSet |->
                         row.bets_won[t] + B(Truthy(Get(bet_results, t, 0)))]]

\* the UPDATE counting as lost only the bets whose result is False
UpdatedStatistics_lost(row, bet_results, total_bet_amount, total_payout, net_profit_loss) ==
    LET total_bets == Cardinality(DOMAIN bet_results)
        total_wins == Cardinality({t \in DOMAIN bet_results : Truthy(bet_results[t])})
        total_losses == Cardinality({t \in DOMAIN bet_results : bet_results[t] = 0})
    IN  [total_predictions |-> row.total_predictions + 1,
         total_bets |-> row.total_bets + total_bets,
         total_wins |-> row.total_wins + total_wins,
         total_losses |-> row.total_losses + total_losses,
         total_bet_amount |-> row.total_bet_amount + total_bet_amount,
         total_payout |-> row.total_payout + total_payout,
         net_profit_loss |-> row.net_profit_loss + net_profit_loss,
         roi_percentage |->
            IF row.total_bet_amount + total_bet_amount > 0
            THEN [num |-> row.total_payout + total_payout
                          - row.total_bet_amount - total_bet_amount,
                  den |-> row.total_bet_amount + total_bet_amount]
            ELSE [num |-> 0, den |-> 1],
         bets_placed |-> [t \in BetTypeSet |->
                            row.bets_placed[t] + B(t \in DOMAIN bet_results)],
         bets_won |-> [t \in BetTypeSet |->
                         row.bets_won[t] + B(Truthy(Get(bet_results, t, 0)))]]

\* OutcomeRepository._update_agent_statistics: the UPDATE of the agent's row
UpdatedStatistics(row, bet_results, total_bet_amount, total_payout, net_profit_loss) ==
    LET total_bets == Cardinality(DOMAIN bet_results)
        total_wins == Cardinality({t \in DOMAIN bet_results : Truthy(bet_results[t])})
        total_losses == total_bets - total_wins
    IN  [total_predictions |-> row.total_predictions + 1,
         total_bets |-> row.total_bets + total_bets,
         total_wins |-> row.total_wins + total_wins,
         total_losses |-> row.total_losses + total_losses,
         total_bet_amount |-> row.total_bet_amount + total_bet_amount,
         total_payout |-> row.total_payout + total_payout,
         net_profit_loss |-> row.net_profit_loss + net_profit_loss,
         roi_percentage |->
            IF row.total_bet_amount + total_bet_amount > 0
            THEN [num |-> row.total_payout + total_payout
                          - row.total_bet_amount - total_bet_amount,
                  den |-> row.total_bet_amount + total_bet_amount]
            ELSE [num |-> 0, den |-> 1],
         bets_placed |-> [t \in BetTypeSet |->
                            row.bets_placed[t] + B(t \in DOMAIN bet_results)],
         bets_won |-> [t \in BetTypeSet |->
                         row.bets_won[t] + B(Truthy(Get(bet_results, t, 0)))]]

\* the database as the settlement loops thread it: the two tables written, and
\* whether a statement raised
Db(outcomes, statistics, raised) ==
    [outcomes |-> outcomes, statistics |-> statistics, raised |-> raised]

\* SELECT agent_id FROM predictions WHERE prediction_id = ? ; UPDATE ... WHERE agent_id = ?
update_agent_statistics(statistics, prediction, e) ==
    [statistics EXCEPT ![prediction.agent] =
        UpdatedStatistics(@, e.bet_results, e.total_bet_amount,
                          SumValues(e.payouts),
                          SumValues(e.payouts) - e.total_bet_amount)]

\* OutcomeRepository.save_outcome (and the copy in evaluate_pending.py):
\* INSERT, commit, statistics UPDATE, commit.  fault is the statement the
\* database fails on: "none", "insert" or "fold".
save_outcome(db, prediction, e, dividends, fault) ==
    IF fault = "insert" THEN Db(db.outcomes, db.statistics, TRUE)
    ELSE LET stored == Append(db.outcomes,
                              OutcomeRow(prediction.prediction_id, e, dividends,
                                         ResultColumn))
         IN  IF fault = "fold" THEN Db(stored, db.statistics, TRUE)
             ELSE Db(stored, update_agent_statistics(db.statistics, prediction, e),
                     FALSE)

\* evaluate_all_results.py save_outcome: INSERT and commit only
all_save_outcome(db, prediction, e, dividends, fault) ==
    IF fault = "insert" THEN Db(db.outcomes, db.statistics, TRUE)
    ELSE Db(Append(db.outcomes,
                   OutcomeRow(prediction.prediction_id, e, dividends,
                              AllResultColumn)),
            db.statistics, FALSE)

-----------------------------------------------------------------------------
(* The races of the model: their start times, results and the bets placed *)

\* start times as the parser gives them, aware, in Perth time.  r1 starts a
\* quarter of an hour before instant 0; the result check of r2 fell due a day
\* before instant 2.
race_start_time(r) ==
    IF r = "r1" THEN DT(PerthOffset - result_wait_minutes, PerthOffset)
    ELSE DT(PerthOffset + 2 - DayMinutes - result_wait_minutes, PerthOffset)

\* what get_race_results returns once the race has finished
FinishedResult(r) ==
    IF r = "r1"
    THEN [finishing_order |->
             <<Finisher(1, [k \in {"tote_win"} |-> 350]),
               Finisher(2, [k \in {"tote_win"} |-> 500]),
               Finisher(3, [k \in {"tote_win"} |-> 800])>>,
          dividends |->
             [k \in {"trifecta"} |->
                DivDict(<<"1", "-", "2", "-", "3">>,
                        <<"$", "4", "5", ".", "6", "0">>)]]
    ELSE [finishing_order |->
             <<Finisher(4, [k \in {"tote_win"} |-> 210]),
               Finisher(5, [k \in {"tote_win"} |-> 640]),
               Finisher(6, [k \in {"tote_win"} |-> 1200]),
               Finisher(7, [k \in {"tote_win"} |-> 900])>>,
          dividends |->
             [k \in {"quinella"} |->
                DivDict(<<"4", "-", "5">>, <<"$", "1", "2", ".", "3", "0">>)]]

\* outcomes of one call of TabTouchParser.get_race_results
FetchKinds == {"raise", "none", "empty", "result"}
Fetched(r, kind) ==
    IF kind = "result" THEN FinishedResult(r)
    ELSE [finishing_order |-> <<>>, dividends |-> EmptyDict]
\* "if race_result" without "and race_result.finishing_order"
HasResult_object(kind) == kind \in {"empty", "result"}
HasResult(kind) == kind = "result"

\* the bets each agent places on each race
structured_bet_of(agent, r) ==
    IF r = "r1"
    THEN IF agent = "gemini"
         THEN [t \in {"trifecta"} |-> Bet(<<1, 2, 3>>, 500)]
         ELSE [t \in {"win"} |-> Bet(<<1>>, 500)]
    ELSE IF agent = "gemini"
         THEN [t \in {"win"} |-> Bet(<<5>>, 500)]
         ELSE [t \in {"qps"} |-> Bet(<<4, 5, 9>>, 200)]

-----------------------------------------------------------------------------
(* Queries *)

HasOutcome(outcomes, prediction_id) ==
    \E i \in 1..Len(outcomes) : outcomes[i].prediction_id = prediction_id

\* PredictionRepository.get_predictions_for_race: every prediction of the
\* race, newest first
get_predictions_for_race(race_url) ==
    Reverse(SelectSeq(predictions, LAMBDA p : p.race_url = race_url))

\* predictions without an outcome, in rowid order
Pending(outcomes) ==
    SelectSeq(predictions, LAMBDA p : ~HasOutcome(outcomes, p.prediction_id))

\* evaluate_all_results.py get_predictions_for_race: the pending ones only
all_get_predictions_for_race(outcomes, race_url) ==
    SelectSeq(Pending(outcomes), LAMBDA p : p.race_url = race_url)

\* evaluate_pending.py get_pending_predictions: ORDER BY created_at
get_pending_predictions == Pending(prediction_outcomes)

\* StatisticsRepository.get_pending_predictions: ORDER BY race_start_time
\* (NULL first, then the text in ascending order)
StartKey(p) == IF p.race_start_time.isnull THEN -100000 ELSE p.race_start_time.wall
RECURSIVE SortByStart(_)
SortByStart(s) ==
    IF s = <<>> THEN <<>>
    ELSE LET i == CHOOSE i \in 1..Len(s) :
                    /\ \A j \in 1..Len(s) : StartKey(s[i]) <= StartKey(s[j])
                    /\ \A j \in 1..(i - 1) : StartKey(s[j]) > StartKey(s[i])
         IN  <<s[i]>> \o SortByStart(SubSeq(s, 1, i - 1) \o SubSeq(s, i + 1, Len(s)))
stats_get_pending_predictions == SortByStart(Pending(prediction_outcomes))

\* a grouping that opens a group for every prediction
GroupByRace_each(pending) ==
    [i \in 1..Len(pending) |->
        [race_url |-> pending[i].race_url, predictions |-> <<pending[i]>>]]

\* races = {}; for pred in pending: races[url].append(pred)
RECURSIVE GroupByRace(_)
GroupByRace(pending) ==
    IF pending = <<>> THEN <<>>
    ELSE LET url == Head(pending).race_url
         IN  <<[race_url |-> url,
                predictions |-> SelectSeq(pending, LAMBDA p : p.race_url = url)]>>
             \o GroupByRace(SelectSeq(pending, LAMBDA p : p.race_url # url))

-----------------------------------------------------------------------------
(* scheduled_checks: a dict, kept as its items in insertion order *)

Entry(race_url, check_time, retry_count) ==
    [race_url |-> race_url, check_time |-> check_time, retry_count |-> retry_count]
Keys(sc) == {sc[i].race_url : i \in 1..Len(sc)}
Lookup(sc, r) == sc[CHOOSE i \in 1..Len(sc) : sc[i].race_url = r]
SetItem(sc, e) ==
    IF e.race_url \in Keys(sc)
    THEN [i \in 1..Len(sc) |-> IF sc[i].race_url = e.race_url THEN e ELSE sc[i]]
    ELSE Append(sc, e)
DelItem(sc, r) == SelectSeq(sc, LAMBDA e : e.race_url # r)

-----------------------------------------------------------------------------
(* Settlement loops *)

NoFault == [at |-> 0, kind |-> "none"]
PublishFault == [at |-> 0, kind |-> "publish"]
\* the database failing on the INSERT or on the statistics UPDATE of the
\* n-th prediction settled, or redis failing on the publish
Faults(n) == {NoFault} \cup {[at |-> i, kind |-> k] : i \in 1..n, k \in {"insert", "fold"}}
FaultAt(fault, i) == IF fault.at = i THEN fault.kind ELSE "none"

\* the loop saving whatever the dry_run flag says
RECURSIVE SettleAll_saving(_, _, _, _, _, _)
SettleAll_saving(path, preds, i, race_result, db, fault) ==
    IF i > Len(preds) THEN db
    ELSE LET sb == preds[i].structured_bet
             e == CASE path = "results" -> evaluate_prediction(sb, race_result)
                    [] path = "cmd" ->
                         IF cmd_structured_bet_column = "structured_bet_json"
                         THEN evaluate_prediction_for_cmd(sb, race_result)
                         ELSE Evaluation(TRUE, <<>>, EmptyDict, EmptyDict, 0)
                    [] path = "all" -> all_evaluate_prediction(sb, race_result)
                    [] OTHER -> pending_evaluate_prediction(sb, race_result)
         IN  IF e.raised THEN Db(db.outcomes, db.statistics, TRUE)
             ELSE LET d == CASE path = "all" ->
                                  all_save_outcome(db, preds[i], e,
                                                   race_result.dividends,
                                                   FaultAt(fault, i))
                             [] OTHER ->
                                  save_outcome(db, preds[i], e,
                                               race_result.dividends,
                                               FaultAt(fault, i))
                  IN  IF d.raised THEN d
                      ELSE SettleAll_saving(path, preds, i + 1, race_result, d, fault)

\* for pred in predictions: evaluate, save; the first exception ends the loop
RECURSIVE SettleAll(_, _, _, _, _, _)
SettleAll(path, preds, i, race_result, db, fault) ==
    IF i > Len(preds) THEN db
    ELSE LET sb == preds[i].structured_bet
             e == CASE path = "results" -> evaluate_prediction(sb, race_result)
                    [] path = "cmd" ->
                         IF cmd_structured_bet_column = "structured_bet_json"
                         THEN evaluate_prediction_for_cmd(sb, race_result)
                         ELSE Evaluation(TRUE, <<>>, EmptyDict, EmptyDict, 0)
                    [] path = "all" -> all_evaluate_prediction(sb, race_result)
                    [] OTHER -> pending_evaluate_prediction(sb, race_result)
         IN  IF e.raised THEN Db(db.outcomes, db.statistics, TRUE)
             ELSE LET d == CASE path = "dry_run" -> db
                             [] path = "all" ->
                                  all_save_outcome(db, preds[i], e,
                                                   race_result.dividends,
                                                   FaultAt(fault, i))
                             [] OTHER ->
                                  save_outcome(db, preds[i], e,
                                               race_result.dividends,
                                               FaultAt(fault, i))
                  IN  IF d.raised THEN d
                      ELSE SettleAll(path, preds, i + 1, race_result, d, fault)

-----------------------------------------------------------------------------
(* The results service *)

Log(op, race) == [op |-> op, race |-> race]
Quiet == Log("none", NoRace)

\* check_results_loop, the scan: races whose check_time, its offset dropped,
\* is not after the naive local time
DueRaces(sc, t) ==
    LET due == SelectSeq(sc, LAMBDA e : t + local_off >= e.check_time.wall)
    IN  [i \in 1..Len(due) |-> due[i].race_url]

\* restore_scheduled_checks, the loop over the rows of the query
RECURSIVE Restore(_, _, _)
Restore(rows, sc, t) ==
    IF rows = <<>> THEN sc
    ELSE LET row == Head(rows)
             race_start == fromisoformat(ReplaceZ(row.race_start_time))
             check_time == PlusMinutes(race_start, result_wait_minutes)
             now_tz == IF check_time.off = NoTz THEN DT(t + local_off, NoTz)
                       ELSE DT(t + check_time.off, check_time.off)
         IN  IF Minus(now_tz, check_time) < DayMinutes
             THEN Restore(Tail(rows), SetItem(sc, Entry(row.race_url, check_time, 0)), t)
             ELSE Restore(Tail(rows), sc, t)

restore_scheduled_checks(t) ==
    Restore(SelectSeq(Pending(prediction_outcomes),
                      LAMBDA p : ~p.race_start_time.isnull),
            <<>>, t)

\* retry_or_abandon giving up at the first failure
retry_or_abandon_once(sc, r) ==
    [scheduled_checks |-> DelItem(sc, r), printed |-> "abandoned"]

\* retry_or_abandon abandoning only above the ceiling
retry_or_abandon_late(sc, r) ==
    LET check_info == Lookup(sc, r)
        retry_count == check_info.retry_count + 1
    IN  IF retry_count > result_max_retries
        THEN [scheduled_checks |-> DelItem(sc, r), printed |-> "abandoned"]
        ELSE [scheduled_checks |->
                  SetItem(sc, Entry(r, PlusMinutes(NowIn(NoTz), RetryIntervalMinutes),
                                    retry_count)),
              printed |-> "retry"]

\* retry_or_abandon counting a failed check twice
retry_or_abandon_twice(sc, r) ==
    LET check_info == Lookup(sc, r)
        retry_count == check_info.retry_count + 2
    IN  IF retry_count >= result_max_retries
        THEN [scheduled_checks |-> DelItem(sc, r), printed |-> "abandoned"]
        ELSE [scheduled_checks |->
                  SetItem(sc, Entry(r, PlusMinutes(NowIn(NoTz), RetryIntervalMinutes),
                                    retry_count)),
              printed |-> "retry"]

\* retry_or_abandon without the ceiling
retry_or_abandon_forever(sc, r) ==
    LET check_info == Lookup(sc, r)
    IN  [scheduled_checks |->
             SetItem(sc, Entry(r, PlusMinutes(NowIn(NoTz), RetryIntervalMinutes),
                               check_info.retry_count)),
         printed |-> "retry"]

\* retry_or_abandon: the watch set afterwards, and what it prints
retry_or_abandon(sc, r) ==
    LET check_info == Lookup(sc, r)
        retry_count == check_info.retry_count + 1
    IN  IF retry_count >= result_max_retries
        THEN [scheduled_checks |-> DelItem(sc, r), printed |-> "abandoned"]
        ELSE [scheduled_checks |->
                  SetItem(sc, Entry(r, PlusMinutes(NowIn(NoTz), RetryIntervalMinutes),
                                    retry_count)),
              printed |-> "retry"]

\* publish_evaluation_complete listing the first prediction only
EvaluatedMessage_first(race_url, preds) ==
    [race_url |-> race_url,
     predictions |-> <<[agent_name |-> preds[1].agent,
                        prediction_id |-> preds[1].prediction_id]>>]

\* publish_evaluation_complete: the message
EvaluatedMessage(race_url, preds) ==
    [race_url |-> race_url,
     predictions |-> [i \in 1..Len(preds) |->
                        [agent_name |-> preds[i].agent,
                         prediction_id |-> preds[i].prediction_id]]]

\* monitor schedule_result_check and listen_loop: a message for race r arrives
Schedule(r) ==
    LET check_time == fromisoformat(isoformat(
                          PlusMinutes(race_start_time(r), result_wait_minutes)))
    IN  /\ now < MaxTime
        /\ scheduled_checks' = SetItem(scheduled_checks, Entry(r, check_time, 0))
        /\ log' = Log("scheduled", r)
        /\ published' = <<>>
        /\ abandoned' = abandoned \ {r}
        /\ UNCHANGED <<now, local_off, monitored, predictions, prediction_outcomes,
                       agent_statistics, races_to_check, inflight, tool,
                   sample_vars,
                   bet_vars,
                   fetch_vars,
                   monitor_vars>>

\* check_results_loop: asyncio.sleep(60), then the scan of the next tick
Tick ==
    /\ inflight = NoRace
    /\ races_to_check = <<>>
    /\ now < MaxTime \/ (scheduled_checks # <<>> /\ now < MaxTime + DrainMinutes)
    /\ now' = now + TickMinutes
    /\ races_to_check' = DueRaces(scheduled_checks, now')
    /\ log' = Log("tick", NoRace)
    /\ published' = <<>>
    /\ tick_fetches' = <<>>
    /\ UNCHANGED <<local_off, monitored, predictions, prediction_outcomes, agent_statistics,
                   scheduled_checks, inflight, tool,
                   sample_vars,
                   bet_vars,
                   run_fetches,
                   history_vars,
                   monitor_vars>>

\* check_race_results up to the await of get_race_results
BeginCheck ==
    /\ inflight = NoRace
    /\ races_to_check # <<>>
    /\ Head(races_to_check) \in Keys(scheduled_checks)
    /\ inflight' = Head(races_to_check)
    /\ races_to_check' = Tail(races_to_check)
    /\ log' = Log("checking", Head(races_to_check))
    /\ published' = <<>>
    /\ tick_fetches' = Append(tick_fetches, Head(races_to_check))
    /\ UNCHANGED <<now, local_off, monitored, predictions, prediction_outcomes,
                   agent_statistics, scheduled_checks, tool,
                   sample_vars,
                   bet_vars,
                   run_fetches,
                   history_vars,
                   monitor_vars>>

\* check_race_results from the return of get_race_results to its end
FinishCheck(kind, fault) ==
    /\ inflight # NoRace
    /\ LET r == inflight
           race_result == Fetched(r, kind)
           preds == get_predictions_for_race(r)
       IN  /\ fault \in Faults(Len(preds)) \cup {PublishFault}
           /\ ~HasResult(kind) => fault = NoFault
           /\ preds = <<>> => fault = NoFault
           /\ \E db \in {IF HasResult(kind)
                          THEN SettleAll("results", preds, 1, race_result,
                                Db(prediction_outcomes, agent_statistics, FALSE),
                                fault)
                          ELSE Db(prediction_outcomes, agent_statistics, FALSE)} :
               LET failed == db.raised \/ (fault.kind = "publish" /\ preds # <<>>) IN
               /\ Len(db.outcomes) <= MaxOutcomes
               /\ prediction_outcomes' = db.outcomes
               /\ agent_statistics' = db.statistics
               /\ IF ~HasResult(kind) \/ failed
                  THEN LET after == retry_or_abandon(scheduled_checks, r)
                       IN  /\ scheduled_checks' = after.scheduled_checks
                           /\ published' = <<>>
                           /\ log' = Log(after.printed, r)
                  ELSE /\ scheduled_checks' = DelItem(scheduled_checks, r)
                       /\ published' = IF preds # <<>>
                                       THEN <<EvaluatedMessage(r, preds)>> ELSE <<>>
                       /\ log' = Log("resolved", r)
    /\ inflight' = NoRace
    /\ abandoned' = IF log'.op = "abandoned" THEN abandoned \cup {inflight}
                    ELSE abandoned
    /\ UNCHANGED <<now, local_off, monitored, predictions, races_to_check, tool,
                   sample_vars,
                   bet_vars,
                   fetch_vars,
                   monitor_vars>>

\* the process stops (in any state) and start() runs again d minutes later
Restart(d) ==
    /\ d >= 1
    /\ now + d <= MaxTime
    /\ now' = now + d
    /\ scheduled_checks' = restore_scheduled_checks(now')
    /\ races_to_check' = DueRaces(scheduled_checks', now')
    /\ inflight' = NoRace
    /\ log' = Log("restored", NoRace)
    /\ published' = <<>>
    /\ tick_fetches' = <<>>
    /\ UNCHANGED <<local_off, monitored, predictions, prediction_outcomes, agent_statistics,
                   tool,
                   sample_vars,
                   bet_vars,
                   run_fetches,
                   history_vars,
                   monitor_vars>>

-----------------------------------------------------------------------------
(* The orchestrator and the manual tools *)

StartModes == {"iso", "null"}

\* PredictionRepository.save_prediction: race_start_time is the monitor's
\* start_time_iso, or NULL when the caller passes none
SavePrediction(agent, r, mode) ==
    /\ now < MaxTime
    /\ Len(predictions) < MaxPredictions
    /\ \A i \in 1..Len(predictions) :
          ~(predictions[i].agent = agent /\ predictions[i].race_url = r)
    /\ predictions' =
          Append(predictions,
                 Prediction(Len(predictions) + 1, agent, r,
                            IF mode = "null" THEN NullStart
                            ELSE StartText(isoformat(race_start_time(r))),
                            structured_bet_of(agent, r)))
    /\ log' = Quiet
    /\ published' = <<>>
    /\ UNCHANGED <<now, local_off, monitored, prediction_outcomes, agent_statistics,
                   scheduled_checks, races_to_check, inflight, tool,
                   sample_vars,
                   bet_vars,
                   fetch_vars,
                   history_vars,
                   monitor_vars>>

Idle == [name |-> "idle", races |-> <<>>]
ToolNames == {"cmd", "pending", "dry_run", "all"}

\* cmd_evaluate, evaluate_all_pending, evaluate_all_results main: the query of
\* the pending predictions and their grouping by race
ToolStart(name) ==
    /\ tool = Idle
    /\ Pending(prediction_outcomes) # <<>>
    /\ tool' = [name |-> name,
                races |-> GroupByRace(IF name = "cmd"
                                      THEN stats_get_pending_predictions
                                      ELSE get_pending_predictions)]
    /\ log' = Quiet
    /\ published' = <<>>
    /\ run_fetches' = <<>>
    /\ UNCHANGED <<now, local_off, monitored, predictions, prediction_outcomes,
                   agent_statistics, scheduled_checks, races_to_check, inflight,
                   sample_vars,
                   bet_vars,
                   tick_fetches,
                   history_vars,
                   monitor_vars>>

\* one pass of the tool's loop over the races: fetch, then settle
ToolRace(kind, fault) ==
    /\ tool # Idle
    /\ LET g == Head(tool.races)
           race_result == Fetched(g.race_url, kind)
           preds == IF tool.name = "all"
                    THEN all_get_predictions_for_race(prediction_outcomes, g.race_url)
                    ELSE g.predictions
       IN  /\ fault \in Faults(Len(preds))
           /\ ~HasResult(kind) => fault = NoFault
           /\ tool.name \in {"cmd", "dry_run"} => fault = NoFault
           /\ tool.name = "all" => fault.kind # "fold"
           /\ \E db \in {IF HasResult(kind)
                 THEN SettleAll(tool.name, preds, 1, race_result,
                                Db(prediction_outcomes, agent_statistics, FALSE),
                                fault)
                 ELSE Db(prediction_outcomes, agent_statistics, FALSE)} :
               /\ Len(db.outcomes) <= MaxOutcomes
               /\ prediction_outcomes' = db.outcomes
               /\ agent_statistics' = db.statistics
    /\ tool' = IF Len(tool.races) = 1 THEN Idle
               ELSE [tool EXCEPT !.races = Tail(@)]
    /\ log' = Quiet
    /\ published' = <<>>
    /\ run_fetches' = Append(run_fetches, Head(tool.races).race_url)
    /\ UNCHANGED <<now, local_off, monitored, predictions, scheduled_checks, races_to_check,
                   inflight,
                   sample_vars,
                   bet_vars,
                   tick_fetches,
                   history_vars,
                   monitor_vars>>

-----------------------------------------------------------------------------
(* The bet models: construction of one bet from its arguments.  Exacta and
   Trifecta take their horses as the fields first, second, third; the
   others as horse_number or as the list horses *)

BetInput(variant, horses, amount) ==
    [variant |-> variant, horses |-> horses, amount |-> amount]
NoInput == BetInput("none", <<>>, 0)

Built(bet) == [raised |-> "none", value |-> <<bet>>]
\* pydantic reports a ValueError of a field validator, a violated Field
\* constraint and a ValueError of model_post_init as a ValidationError
Rejected == [raised |-> "ValidationError", value |-> <<>>]

\* Field(..., ge=1) and the validators' range test
ValidNumber(v) == v >= 1 /\ v <= 30
\* amount: float = Field(..., gt=0)
ValidAmount(amount) == amount > 0
Distinct(horses) ==
    Cardinality(Range(horses)) = Len(horses)

WinBet(horse_number, amount) ==
    IF ValidNumber(horse_number) /\ ValidAmount(amount)
    THEN Built(Bet(<<horse_number>>, amount)) ELSE Rejected

PlaceBet(horse_number, amount) ==
    IF ValidNumber(horse_number) /\ ValidAmount(amount)
    THEN Built(Bet(<<horse_number>>, amount)) ELSE Rejected

ExactaBet(first, second, amount) ==
    IF ~(ValidNumber(first) /\ ValidNumber(second) /\ ValidAmount(amount))
    THEN Rejected
    ELSE IF first = second THEN Rejected
    ELSE Built(Bet(<<first, second>>, amount))

QuinellaBet(horses, amount) ==
    IF /\ Len(horses) >= 2 /\ Len(horses) <= 2
       /\ horses[1] # horses[2]
       /\ \A i \in 1..Len(horses) : ValidNumber(horses[i])
       /\ ValidAmount(amount)
    THEN Built(Bet(SortSeq(horses, LAMBDA a, b : a < b), amount))
    ELSE Rejected

TrifectaBet(first, second, third, amount) ==
    IF ~(/\ ValidNumber(first) /\ ValidNumber(second) /\ ValidNumber(third)
         /\ ValidAmount(amount))
    THEN Rejected
    ELSE IF Cardinality({first, second, third}) # 3 THEN Rejected
    ELSE Built(Bet(<<first, second, third>>, amount))

First4Bet(horses, amount) ==
    IF /\ Len(horses) >= 4 /\ Len(horses) <= 4
       /\ Cardinality(Range(horses)) = 4
       /\ \A i \in 1..Len(horses) : ValidNumber(horses[i])
       /\ ValidAmount(amount)
    THEN Built(Bet(horses, amount))
    ELSE Rejected

\* QPSBet accepting any list of two or more distinct horses
QPSBet_unbounded(horses, amount) ==
    IF /\ Len(horses) >= 2
       /\ Cardinality(Range(horses)) = Len(horses)
       /\ \A i \in 1..Len(horses) : ValidNumber(horses[i])
       /\ ValidAmount(amount)
    THEN Built(Bet(SortSeq(horses, LAMBDA a, b : a < b), amount))
    ELSE Rejected

QPSBet(horses, amount) ==
    IF /\ Len(horses) >= 2 /\ Len(horses) <= 4
       /\ Cardinality(Range(horses)) = Len(horses)
       /\ \A i \in 1..Len(horses) : ValidNumber(horses[i])
       /\ ValidAmount(amount)
    THEN Built(Bet(SortSeq(horses, LAMBDA a, b : a < b), amount))
    ELSE Rejected

BetVariants == {"win", "place", "exacta", "quinella", "trifecta", "first4", "qps"}

\* the arguments sampled: horse numbers with repetitions, one number more
\* than a QPS bet may hold, in the number the variant's fields take or in a
\* list of up to five, and stakes below, at and above 0
BetHorses == 1..(MaxHorse + 1)
HorseLists(n) == [1..n -> BetHorses]
BetInputs ==
    {BetInput(v, h, a) : v \in {"win", "place"}, h \in HorseLists(1),
                          a \in {-100, 0, 500}}
    \cup {BetInput("exacta", h, a) : h \in HorseLists(2), a \in {-100, 0, 500}}
    \cup {BetInput("trifecta", h, a) : h \in HorseLists(3), a \in {-100, 0, 500}}
    \cup {BetInput(v, h, a) :
             v \in {"quinella", "first4", "qps"},
             h \in UNION {HorseLists(n) : n \in 0..5},
             a \in {-100, 0, 500}}

Construct(input) ==
    CASE input.variant = "win" -> WinBet(input.horses[1], input.amount)
      [] input.variant = "place" -> PlaceBet(input.horses[1], input.amount)
      [] input.variant = "exacta" ->
            ExactaBet(input.horses[1], input.horses[2], input.amount)
      [] input.variant = "quinella" -> QuinellaBet(input.horses, input.amount)
      [] input.variant = "trifecta" ->
            TrifectaBet(input.horses[1], input.horses[2], input.horses[3],
                        input.amount)
      [] input.variant = "first4" -> First4Bet(input.horses, input.amount)
      [] input.variant = "qps" -> QPSBet(input.horses, input.amount)

-----------------------------------------------------------------------------
(* The monitor service *)

\* what redis or the parser does to process_race: nothing, get_race_details
\* fails or finds no runners, a publish raises, sadd raises, expire raises
MonitorFaults == {"none", "details", "analysis", "schedule", "mark", "expire"}

\* the monitor's redis state as check_races threads it, and whether an
\* exception has left the loop over the races
Monitor(analyzed, analysis, check, raised) ==
    [analyzed |-> analyzed, analysis |-> analysis, check |-> check,
     raised |-> raised]

\* race.time_parsed as a UTC instant, and (race.time_parsed - now) in minutes
StartInstant(r) == race_start_time(r).wall - race_start_time(r).off
time_until_race(r) == StartInstant(r) - now

\* process_race: the trigger window runs from minutes_before_race + 2 down to
\* half a minute before the start
process_race(m, r, fault) ==
    IF r \in m.analyzed THEN m
    ELSE IF /\ 1 <= 2 * time_until_race(r)
            /\ time_until_race(r) <= minutes_before_race + 2
    THEN CASE fault \in {"details", "analysis"} -> m
           [] fault = "schedule" ->
                [m EXCEPT !.analysis[r] = @ + 1]
           [] fault = "mark" ->
                [m EXCEPT !.analysis[r] = @ + 1, !.check[r] = @ + 1]
           [] OTHER ->
                [m EXCEPT !.analysis[r] = @ + 1, !.check[r] = @ + 1,
                          !.analyzed = @ \cup {r}]
    ELSE IF 2 * time_until_race(r) < 1
    THEN CASE fault = "mark" -> [m EXCEPT !.raised = TRUE]
           [] fault = "expire" ->
                [m EXCEPT !.analyzed = @ \cup {r}, !.raised = TRUE]
           [] OTHER -> [m EXCEPT !.analyzed = @ \cup {r}]
    ELSE m

\* check_races: for race in next_races: await self.process_race(race)
RECURSIVE check_races(_, _, _)
check_races(m, next_races, faults) ==
    IF next_races = <<>> \/ m.raised THEN m
    ELSE check_races(process_race(m, Head(next_races), faults[Head(next_races)]),
                     Tail(next_races), faults)

\* get_next_races: the races of the list, in its order
NextRaces == <<"r1", "r2">>

\* the polls run from the minute before the trigger window of r1 opens until
\* r1 has started
FirstPoll == StartInstant("r1") - (minutes_before_race + 2) - 1
LastPoll == StartInstant("r1") + 1

\* monitor_loop, one pass: check_races, then asyncio.sleep(monitor_poll_interval)
MonitorPoll(faults) ==
    /\ now <= LastPoll
    /\ LET m == check_races(Monitor(analyzed_races, analysis_published,
                                    check_published, FALSE),
                            NextRaces, faults)
       IN  /\ analyzed_races' = m.analyzed
           /\ analysis_published' = m.analysis
           /\ check_published' = m.check
    /\ now' = now + PollMinutes
    /\ UNCHANGED <<local_off, monitored, predictions, prediction_outcomes,
                   agent_statistics, scheduled_checks, races_to_check, inflight,
                   tool, published, log, sample_vars, bet_vars, fetch_vars,
                   history_vars>>

-----------------------------------------------------------------------------
(* The system *)

LocalOffsets == {PerthOffset}

Init ==
    /\ now = 0
    /\ local_off \in LocalOffsets
    /\ monitored \in Races
    /\ predictions = <<>>
    /\ prediction_outcomes = <<>>
    /\ agent_statistics = [a \in Agents |-> ZeroStatistics]
    /\ scheduled_checks = <<>>
    /\ races_to_check = <<>>
    /\ inflight = NoRace
    /\ tool = Idle
    /\ published = <<>>
    /\ log = Quiet
    /\ sample_bet = EmptyDict
    /\ sample_result = Fetched(NoRace, "none")
    /\ sample_path = "none"
    /\ evaluations = <<>>
    /\ bet_input = NoInput
    /\ bet_built = <<>>
    /\ tick_fetches = <<>>
    /\ run_fetches = <<>>
    /\ abandoned = {}
    /\ analyzed_races = {}
    /\ analysis_published = [r \in Races |-> 0]
    /\ check_published = [r \in Races |-> 0]

AllFaults == Faults(MaxPredictions) \cup {PublishFault}

\* the results service and the orchestrator, following one race
Next ==
    \/ Schedule(monitored)
    \/ Tick
    \/ BeginCheck
    \/ \E kind \in FetchKinds, fault \in AllFaults : FinishCheck(kind, fault)
    \/ \E d \in 1..MaxDown : Restart(d)
    \/ \E agent \in Agents, mode \in StartModes :
          SavePrediction(agent, monitored, mode)

Spec == Init /\ [][Next]_vars

\* the manual tools and the orchestrator, over all races
ToolNext ==
    \/ \E agent \in Agents, r \in Races, mode \in StartModes :
          SavePrediction(agent, r, mode)
    \/ \E name \in ToolNames : ToolStart(name)
    \/ \E kind \in FetchKinds, fault \in AllFaults : ToolRace(kind, fault)

ToolSpec == Init /\ [][ToolNext]_vars

-----------------------------------------------------------------------------
(* The settlement engine on its own: one structured bet and one race result,
   evaluated by one copy of evaluate_prediction and stored *)

\* horse numbers the sampled bets name are 1..MaxHorse; the race is run by
\* MaxFinishers + 1 horses at most, MaxFinishers of which the parser reports
DistinctHorses(n) ==
    {s \in [1..n -> 1..MaxHorse] : \A i, j \in 1..n : s[i] = s[j] => i = j}
Ascending(s) == \A i \in 1..(Len(s) - 1) : s[i] < s[i + 1]

\* the horse lists the bet models accept; QuinellaBet and QPSBet sort theirs
SampleHorses(t) ==
    CASE t \in {"win", "place"} -> DistinctHorses(1)
      [] t = "exacta" -> DistinctHorses(2)
      [] t = "quinella" -> {s \in DistinctHorses(2) : Ascending(s)}
      [] t = "trifecta" -> DistinctHorses(3)
      [] t = "first4" -> DistinctHorses(4)
      [] t = "qps" -> {s \in DistinctHorses(2) \cup DistinctHorses(3)
                                \cup DistinctHorses(4) : Ascending(s)}

\* structured_bet with one bet of type t, alone or next to a Win bet on horse 1
SampleBets(t) ==
    {[u \in {t} |-> Bet(h, 500)] : h \in SampleHorses(t)}
    \cup (IF t = "win" THEN {}
          ELSE {[u \in {t, "win"} |-> IF u = t THEN Bet(h, 500)
                                       ELSE Bet(<<1>>, 200)] :
                   h \in SampleHorses(t)})

\* the order the horses finished in, and the numbers the parser read off the
\* page (0 where it found none)
InOrder == [i \in 1..MaxFinishers |-> i]
SampleOrders ==
    {[parsed |-> Take(InOrder, n), finished |-> InOrder] : n \in 1..MaxFinishers}
    \cup {[parsed |-> <<2, 1, 3>>, finished |-> <<2, 1, 3, 4>>],
          [parsed |-> <<0, 0, 0>>, finished |-> InOrder]}

\* a price source of a finisher: absent, present without a price, or priced
PriceSources(price) ==
    {[present |-> FALSE, price |-> 0], [present |-> TRUE, price |-> 0],
     [present |-> TRUE, price |-> price]}
FixedSources == PriceSources(250)
ToteSources == PriceSources(350)
ToteOnly == [present |-> FALSE, price |-> 0]

\* the prices of the i-th finisher
Quote(kind, price, i) ==
    IF price = 0 THEN 0
    ELSE IF kind = "win" THEN price + 100 * (i - 1)
    ELSE price \div 2 + 10 * (i - 1)
SamplePrices(fixed, tote, i) ==
    [k \in (IF fixed.present THEN {"fixed_win", "fixed_place"} ELSE {})
           \cup (IF tote.present THEN {"tote_win", "tote_place"} ELSE {}) |->
        CASE k = "fixed_win" -> Quote("win", fixed.price, i)
          [] k = "fixed_place" -> Quote("place", fixed.price, i)
          [] k = "tote_win" -> Quote("win", tote.price, i)
          [] k = "tote_place" -> Quote("place", tote.price, i)]

\* "1-2-3": the combination text of a dividend
RECURSIVE Join(_)
Join(nums) ==
    IF Len(nums) = 1 THEN <<ToString(nums[1])>>
    ELSE <<ToString(nums[1]), "-">> \o Join(Tail(nums))
CombinationLength(t) ==
    CASE t = "trifecta" -> 3 [] t = "first4" -> 4 [] OTHER -> 2

\* the dividend of a combination bet type: missing, a bare number, the
\* parser's record with a currency amount, with no amount found, or with an
\* amount the regular expression accepts and float() rejects
DividendShapes == {"absent", "number", "currency", "blank", "commas"}
SampleDividend(shape, combination) ==
    CASE shape = "number" -> DivNum(4560)
      [] shape = "currency" ->
            DivDict(combination, <<"$", "4", "5", ".", "6", "0">>)
      [] shape = "blank" -> DivDict(combination, <<>>)
      [] shape = "commas" -> DivDict(combination, <<"$", ",">>)
\* the key the result carries the First4 dividend under
DividendKeys(t) == IF t = "first4" THEN {"first4", "first_4"} ELSE {t}
SampleDividends(t, shape, key, order) ==
    IF shape = "absent" THEN EmptyDict
    ELSE [k \in {key} |->
            SampleDividend(shape,
                           Join(Take(order.finished, CombinationLength(t))))]

SampleResult(order, fixed, tote, dividends) ==
    [finishing_order |->
        [i \in 1..Len(order.parsed) |->
            Finisher(order.parsed[i], SamplePrices(fixed, tote, i))],
     dividends |-> dividends]

\* the race results sampled for a bet of type t: for Win and Place every
\* combination of price sources, for the combination types the parser's
\* prices and every dividend shape
SampleResults(t) ==
    IF t \in {"win", "place"}
    THEN {SampleResult(order, fixed, tote, EmptyDict) :
             order \in SampleOrders, fixed \in FixedSources, tote \in ToteSources}
    ELSE UNION {{SampleResult(order, ToteOnly, [present |-> TRUE, price |-> 350],
                              SampleDividends(t, shape, key, order)) :
                    order \in SampleOrders, shape \in DividendShapes} :
                  key \in DividendKeys(t)}

\* the copies of evaluate_prediction that store what they compute
EnginePaths == {"results", "pending", "all"}
SampleAgent == "gemini"

EvaluationOn(path, structured_bet, race_result) ==
    CASE path = "results" -> evaluate_prediction(structured_bet, race_result)
      [] path = "all" -> all_evaluate_prediction(structured_bet, race_result)
      [] OTHER -> pending_evaluate_prediction(structured_bet, race_result)

\* the race_result object after the call: evaluate_all_results.py has written
\* the numbers of the dividend combination into race_result.finishing_order
ResultAfter(path, race_result) ==
    IF path = "all"
    THEN LET x == extract_numbers_from_dividends(race_result.dividends)
         IN  IF x.raised THEN race_result
             ELSE [race_result EXCEPT
                      !.finishing_order = FillNumbers(@, x.nums)]
    ELSE race_result

EngineInit ==
    /\ now = 0
    /\ local_off \in LocalOffsets
    /\ monitored = "r1"
    /\ predictions = <<>>
    /\ prediction_outcomes = <<>>
    /\ agent_statistics = [a \in Agents |-> ZeroStatistics]
    /\ scheduled_checks = <<>>
    /\ races_to_check = <<>>
    /\ inflight = NoRace
    /\ tool = Idle
    /\ published = <<>>
    /\ log = Quiet
    /\ \E t \in BetTypeSet :
          /\ sample_bet \in SampleBets(t)
          /\ sample_result \in SampleResults(t)
    /\ sample_path \in EnginePaths
    /\ evaluations = <<>>
    /\ bet_input = NoInput
    /\ bet_built = <<>>
    /\ tick_fetches = <<>>
    /\ run_fetches = <<>>
    /\ abandoned = {}
    /\ analyzed_races = {}
    /\ analysis_published = [r \in Races |-> 0]
    /\ check_published = [r \in Races |-> 0]

\* a prediction of SampleAgent carrying sample_bet is saved, and the race's
\* loop body runs for it: evaluate_prediction, then save_outcome
EngineSettle(path) ==
    /\ sample_path = path
    /\ Len(evaluations) < MaxRuns
    /\ LET p == Prediction(Len(predictions) + 1, SampleAgent, monitored,
                           NullStart, sample_bet)
           db == SettleAll(path, <<p>>, 1, sample_result,
                           Db(prediction_outcomes, agent_statistics, FALSE),
                           NoFault)
       IN  /\ predictions' = Append(predictions, p)
           /\ evaluations' = Append(evaluations,
                                    EvaluationOn(path, sample_bet, sample_result))
           /\ sample_result' = ResultAfter(path, sample_result)
           /\ prediction_outcomes' = db.outcomes
           /\ agent_statistics' = db.statistics
    /\ UNCHANGED <<now, local_off, monitored, scheduled_checks, races_to_check,
                   inflight, tool, published, log, sample_bet, sample_path,
                   bet_vars,
                   fetch_vars,
                   history_vars,
                   monitor_vars>>

EngineNext ==
    \/ EngineSettle("results")
    \/ EngineSettle("pending")
    \/ EngineSettle("all")

EngineSpec == EngineInit /\ [][EngineNext]_vars

-----------------------------------------------------------------------------
(* The bet models on their own: one set of arguments, one construction *)

BetInit ==
    /\ now = 0
    /\ local_off \in LocalOffsets
    /\ monitored = "r1"
    /\ predictions = <<>>
    /\ prediction_outcomes = <<>>
    /\ agent_statistics = [a \in Agents |-> ZeroStatistics]
    /\ scheduled_checks = <<>>
    /\ races_to_check = <<>>
    /\ inflight = NoRace
    /\ tool = Idle
    /\ published = <<>>
    /\ log = Quiet
    /\ sample_bet = EmptyDict
    /\ sample_result = Fetched(NoRace, "none")
    /\ sample_path = "none"
    /\ evaluations = <<>>
    /\ bet_input \in BetInputs
    /\ bet_built = <<>>
    /\ tick_fetches = <<>>
    /\ run_fetches = <<>>
    /\ abandoned = {}
    /\ analyzed_races = {}
    /\ analysis_published = [r \in Races |-> 0]
    /\ check_published = [r \in Races |-> 0]

\* the agent's structured output is validated: the bet class is called
ConstructBet ==
    /\ bet_built = <<>>
    /\ bet_input # NoInput
    /\ bet_built' = <<Construct(bet_input)>>
    /\ UNCHANGED <<now, local_off, monitored, predictions, prediction_outcomes,
                   agent_statistics, scheduled_checks, races_to_check, inflight,
                   tool, published, log, sample_vars, bet_input,
                   fetch_vars,
                   history_vars,
                   monitor_vars>>

BetNext == ConstructBet

BetSpec == BetInit /\ [][BetNext]_vars

-----------------------------------------------------------------------------
(* The monitor service on its own *)

MonitorInit ==
    /\ now = FirstPoll
    /\ local_off \in LocalOffsets
    /\ monitored = "r1"
    /\ predictions = <<>>
    /\ prediction_outcomes = <<>>
    /\ agent_statistics = [a \in Agents |-> ZeroStatistics]
    /\ scheduled_checks = <<>>
    /\ races_to_check = <<>>
    /\ inflight = NoRace
    /\ tool = Idle
    /\ published = <<>>
    /\ log = Quiet
    /\ sample_bet = EmptyDict
    /\ sample_result = Fetched(NoRace, "none")
    /\ sample_path = "none"
    /\ evaluations = <<>>
    /\ bet_input = NoInput
    /\ bet_built = <<>>
    /\ tick_fetches = <<>>
    /\ run_fetches = <<>>
    /\ abandoned = {}
    /\ analyzed_races = {}
    /\ analysis_published = [r \in Races |-> 0]
    /\ check_published = [r \in Races |-> 0]

MonitorNext == \E faults \in [Races -> MonitorFaults] : MonitorPoll(faults)

MonitorSpec == MonitorInit /\ [][MonitorNext]_vars

-----------------------------------------------------------------------------
(* The outcome store and the statistics *)

\* the predictions with at least one outcome record
Settled(outcomes) ==
    {outcomes[i].prediction_id : i \in 1..Len(outcomes)}

\* the outcome records of the predictions of one agent
RecordsOf(outcomes, agent) ==
    {i \in 1..Len(outcomes) :
        \E k \in 1..Len(predictions) :
            /\ predictions[k].prediction_id = outcomes[i].prediction_id
            /\ predictions[k].agent = agent}

\* the records a step appends to the outcome store
Appended == SubSeq(prediction_outcomes', Len(prediction_outcomes) + 1,
                   Len(prediction_outcomes'))

\* C1: in every reachable state the outcome store holds at most one outcome
\* record per prediction
OneOutcomePerPrediction ==
    \A i, j \in 1..Len(prediction_outcomes) :
        prediction_outcomes[i].prediction_id = prediction_outcomes[j].prediction_id
            => i = j

\* C1, the case: one check stored an outcome and a later check of the same
\* race ran to its end
C1_Rechecked ==
    /\ prediction_outcomes # <<>>
    /\ log.op \in {"retry", "resolved", "abandoned"}
    /\ \E i \in 1..Len(scheduled_checks) : scheduled_checks[i].retry_count >= 2

\* C2: an agent's total_predictions does not exceed the number of distinct
\* predictions of that agent that have an outcome
FoldedAtMostOnce ==
    \A a \in Agents :
        agent_statistics[a].total_predictions
            <= Cardinality({prediction_outcomes[i].prediction_id :
                               i \in RecordsOf(prediction_outcomes, a)})

\* C2, the case: an agent has a settled prediction that is counted
C2_Folded ==
    \E a \in Agents :
        /\ agent_statistics[a].total_predictions >= 1
        /\ RecordsOf(prediction_outcomes, a) # {}

\* C3: no outcome is stored without its statistics fold, and no fold is
\* applied without its outcome: an agent's total_predictions is the number of
\* outcome records of its predictions
FoldedWithOutcome ==
    \A a \in Agents :
        agent_statistics[a].total_predictions
            = Cardinality(RecordsOf(prediction_outcomes, a))

\* C3, the case: a manual tool has stored an outcome
C3_ToolStored ==
    /\ tool # Idle
    /\ prediction_outcomes # <<>>

\* C4: a check settles only predictions that have no outcome yet: it appends
\* no record for a prediction that already has one, and leaves the
\* statistics of an agent with no newly settled prediction alone
SettlesOnlyOutstanding ==
    [][(inflight # NoRace /\ inflight' = NoRace) =>
          /\ \A i \in 1..Len(Appended) :
                Appended[i].prediction_id \notin Settled(prediction_outcomes)
          /\ \A a \in Agents :
                (\A k \in 1..Len(predictions) :
                    (predictions[k].agent = a /\ predictions[k].race_url = inflight)
                        => predictions[k].prediction_id
                              \in Settled(prediction_outcomes))
                    => agent_statistics'[a] = agent_statistics[a]]_vars

\* C4, the case: a check found a result for a race that has a settled prediction
C4_CheckedSettledRace ==
    /\ log.op = "resolved"
    /\ \E k \in 1..Len(predictions) :
          /\ predictions[k].race_url = log.race
          /\ predictions[k].prediction_id \in Settled(prediction_outcomes)

-----------------------------------------------------------------------------
(* The watch set *)

RetryCount(sc, r) == Lookup(sc, r).retry_count

\* a step in which check_race_results runs from the fetch's return to its end
CheckEnds == inflight # NoRace /\ inflight' = NoRace /\ log'.op # "restored"

\* C5: a race is abandoned exactly at the failed check that makes its retry
\* count reach result_max_retries, a failed check below the ceiling keeps it
\* watched, and no fetch begins at a count at or above the ceiling
AbandonedAtCeiling ==
    [][/\ log'.op = "abandoned" =>
             /\ log'.race = inflight
             /\ RetryCount(scheduled_checks, inflight) + 1 = result_max_retries
             /\ inflight \notin Keys(scheduled_checks')
       /\ log'.op = "retry" =>
             /\ log'.race = inflight
             /\ RetryCount(scheduled_checks, inflight) + 1 < result_max_retries
             /\ inflight \in Keys(scheduled_checks')
       /\ (inflight = NoRace /\ inflight' # NoRace) =>
             RetryCount(scheduled_checks, inflight') < result_max_retries]_vars

\* C5, the case: a check has abandoned a race
C5_Abandoned == log.op = "abandoned" /\ log.race \notin Keys(scheduled_checks)

\* C6 as stated: across every step that keeps a race watched its retry count
\* stays the same or grows by one
RetryCountNeverDrops ==
    [][\A r \in Races :
          (r \in Keys(scheduled_checks) /\ r \in Keys(scheduled_checks')) =>
              RetryCount(scheduled_checks', r) \in
                  {RetryCount(scheduled_checks, r),
                   RetryCount(scheduled_checks, r) + 1}]_vars

\* C6: a failed check that keeps the race watched grows its retry count by
\* exactly one, a schedule message for the race and restart recovery admit it
\* with count 0 whatever the count was, and no other step changes the count
RetryCountResetOnAdmission ==
    [][\A r \in Races :
          (r \in Keys(scheduled_checks) /\ r \in Keys(scheduled_checks')) =>
              RetryCount(scheduled_checks', r) =
                  IF log'.op = "retry" /\ log'.race = r
                  THEN RetryCount(scheduled_checks, r) + 1
                  ELSE IF \/ log'.op = "scheduled" /\ log'.race = r
                          \/ log'.op = "restored"
                       THEN 0
                       ELSE RetryCount(scheduled_checks, r)]_vars

\* C6, the case: failed checks have grown a race's count to the last value
\* below the ceiling
C6_Grown ==
    /\ log.op = "retry"
    /\ RetryCount(scheduled_checks, log.race) = result_max_retries - 1

\* the instant of a race's first check: start time + result_wait_minutes
TargetInstant(r) ==
    (race_start_time(r).wall - race_start_time(r).off) + result_wait_minutes

\* the race has a prediction without an outcome whose start time is known
Outstanding(r) ==
    \E k \in 1..Len(predictions) :
        /\ predictions[k].race_url = r
        /\ predictions[k].prediction_id \notin Settled(prediction_outcomes)
        /\ ~predictions[k].race_start_time.isnull

\* C7: restart recovery admits a race, with count 0 and target = start time +
\* result_wait_minutes, iff the race has a prediction without an outcome and
\* with a known start time and now - target <= 24 h
RecoveryAdmitsWithinDay ==
    [][log'.op = "restored" =>
          \A r \in Races :
              /\ r \in Keys(scheduled_checks') <=>
                    (Outstanding(r) /\ now' - TargetInstant(r) <= DayMinutes)
              /\ r \in Keys(scheduled_checks') =>
                    Lookup(scheduled_checks', r) =
                        Entry(r, PlusMinutes(race_start_time(r), result_wait_minutes),
                              0)]_vars

\* C7, the case: recovery has admitted a race with an outstanding prediction
C7_Admitted ==
    /\ log.op = "restored"
    /\ \E r \in Races : r \in Keys(scheduled_checks) /\ Outstanding(r)

NonResultKinds == {"raise", "none", "empty"}

\* C8: a check whose fetch raises, returns nothing or returns an empty
\* finishing order writes no outcome, changes no statistics and emits
\* nothing; it adds one to the retry count and, below the ceiling, keeps the
\* race watched with target = now + the retry interval
FailedFetchFrame ==
    [][(\E kind \in NonResultKinds : FinishCheck(kind, NoFault)) =>
          /\ prediction_outcomes' = prediction_outcomes
          /\ agent_statistics' = agent_statistics
          /\ published' = <<>>
          /\ IF RetryCount(scheduled_checks, inflight) + 1 < result_max_retries
             THEN scheduled_checks' =
                     SetItem(scheduled_checks,
                             Entry(inflight,
                                   DT(now + local_off + RetryIntervalMinutes, NoTz),
                                   RetryCount(scheduled_checks, inflight) + 1))
             ELSE scheduled_checks' = DelItem(scheduled_checks, inflight)]_vars

\* C8, the case: a check of a race without predictions failed, which only a
\* fetch without a result causes
C8_FetchFailed == log.op = "retry" /\ predictions = <<>>

\* the results service runs its loop, and an awaited fetch returns: at the
\* latest its page load times out and raises
FairSpec ==
    /\ Spec
    /\ WF_vars(Tick)
    /\ WF_vars(BeginCheck)
    /\ WF_vars(FinishCheck("raise", NoFault))

\* C9: every race in the watch set eventually leaves it
EventuallyLeaves ==
    \A r \in Races :
        (r \in Keys(scheduled_checks)) ~> (r \notin Keys(scheduled_checks))

\* C9, the case: a race whose predictions never got an outcome was abandoned
C9_NeverAvailable ==
    /\ log.op = "abandoned"
    /\ predictions # <<>>
    /\ prediction_outcomes = <<>>

\* the prediction ids of a sequence of rows
Ids(rows) == [i \in 1..Len(rows) |-> rows[i].prediction_id]

\* C10 as stated: a check that resolves the race emits exactly one event,
\* listing the predictions the check settled; any other check emits none
ResolvedEmitsOne ==
    [][CheckEnds =>
          IF log'.op = "resolved"
          THEN /\ Len(published') = 1
               /\ published'[1].race_url = inflight
               /\ Ids(published'[1].predictions) = Ids(Appended)
          ELSE published' = <<>>]_vars

\* C10: a check that resolves a race with at least one prediction emits
\* exactly one event, listing the predictions the check settled; a check that
\* resolves a race without predictions, or does not resolve it, emits none
ResolvedEmitsOneIfPredicted ==
    [][CheckEnds =>
          IF log'.op = "resolved" /\ get_predictions_for_race(inflight) # <<>>
          THEN /\ Len(published') = 1
               /\ published'[1].race_url = inflight
               /\ Ids(published'[1].predictions) = Ids(Appended)
               /\ Appended # <<>>
          ELSE published' = <<>>]_vars

\* C10, the case: a resolving check has emitted its event
C10_Emitted ==
    /\ log.op = "resolved"
    /\ Len(published) = 1
    /\ Len(published[1].predictions) >= 2

-----------------------------------------------------------------------------
(* Failures of the store during a check *)

\* the database failing on a statement of the settlement of one prediction
PersistenceFaults == Faults(MaxPredictions) \ {NoFault}

\* the check of the race in flight evaluates every prediction without an
\* exception of its own
EvaluatesCleanly(race_result) ==
    \A k \in 1..Len(predictions) :
        predictions[k].race_url = inflight
            => ~evaluate_prediction(predictions[k].structured_bet,
                                    race_result).raised

\* C11: when the store fails while the outcome or the statistics of one
\* prediction are written during a check, no outcome is recorded for that
\* prediction, every other prediction of the race has an outcome after the
\* check, and the race stays in the watch set while retries remain
PersistenceFailureScoped ==
    [][\A fault \in PersistenceFaults :
          (/\ FinishCheck("result", fault)
           /\ EvaluatesCleanly(Fetched(inflight, "result")))
          => LET preds == get_predictions_for_race(inflight)
                 failed == preds[fault.at].prediction_id
             IN  /\ failed \notin Settled(prediction_outcomes)
                       => failed \notin Settled(prediction_outcomes')
                 /\ \A j \in 1..Len(preds) :
                       j # fault.at
                           => preds[j].prediction_id \in Settled(prediction_outcomes')
                 /\ RetryCount(scheduled_checks, inflight) + 1 < result_max_retries
                       => inflight \in Keys(scheduled_checks')
                 /\ inflight' = NoRace]_vars

\* C11, the case: a check that found the result ended in a retry with one
\* prediction of the race settled and another one not
C11_FailedHalfway ==
    /\ log.op = "retry"
    /\ \E j, k \in 1..Len(predictions) :
          /\ predictions[j].race_url = log.race
          /\ predictions[k].race_url = log.race
          /\ predictions[j].prediction_id \in Settled(prediction_outcomes)
          /\ predictions[k].prediction_id \notin Settled(prediction_outcomes)

-----------------------------------------------------------------------------
(* The settlement engine *)

\* a dividend record whose amount float() rejects
Malformed(dividend) ==
    dividend.kind = "dict" /\ ParseCurrency(dividend.amount) = PyNone

\* the combination bet types of the sampled bet whose dividend is malformed
MalformedTypes ==
    {t \in DOMAIN sample_bet :
        \E key \in DividendKeys(t) :
            /\ t \notin {"win", "place"}
            /\ key \in DOMAIN sample_result.dividends
            /\ Malformed(sample_result.dividends[key])}

\* C12: when the dividend of a combination bet type of the prediction is an
\* unparseable currency string, every run of the settlement completes and
\* stores the outcome, with payout 0 and the win/loss flag of the finishing
\* sequence for that type, and the Win bet next to it settled as usual
MalformedDividendTolerated ==
    \A i \in 1..Len(evaluations) :
        \A t \in MalformedTypes :
            LET e == evaluations[i]
            IN  /\ ~e.raised
                /\ HasOutcome(prediction_outcomes, i)
                /\ Get(e.payouts, t, 0) = 0
                /\ Truthy(e.bet_results[t])
                      <=> Truthy(BetResult(t, sample_bet[t], e.finishing_order))
                /\ "win" \in DOMAIN sample_bet =>
                      /\ e.bet_results["win"]
                            = is_win(sample_bet["win"], e.finishing_order)
                      /\ Get(e.payouts, "win", 0)
                            = win_payout(sample_bet["win"], e.finishing_order).pay

\* C12, the case: a winning combination bet with a malformed dividend, next to
\* a winning Win bet, was settled and stored
C12_WonWithMalformed ==
    /\ evaluations # <<>>
    /\ prediction_outcomes # <<>>
    /\ \E t \in MalformedTypes :
          /\ Truthy(evaluations[1].bet_results[t])
          /\ Get(evaluations[1].payouts, "win", 0) > 0

\* C13: a Win bet wins iff its horse is the first finisher's; a winning bet is
\* paid stake x the winner's fixed-win price when that is present and above 0,
\* else stake x the tote-win price when present, else 0; a losing bet is paid
\* 0; no payout is negative, and a prediction of Win and Place bets settles
\* whichever price sources are absent
WinBetSettled ==
    \A i \in 1..Len(evaluations) :
        "win" \in DOMAIN sample_bet =>
            LET e == evaluations[i]
                bet == sample_bet["win"]
                winner == e.finishing_order[1]
                price == IF "fixed_win" \in DOMAIN winner.prices
                            /\ winner.prices["fixed_win"] > 0
                         THEN winner.prices["fixed_win"]
                         ELSE IF "tote_win" \in DOMAIN winner.prices
                              THEN winner.prices["tote_win"]
                              ELSE 0
                won == bet.horses[1] = winner.number
            IN  /\ Truthy(e.bet_results["win"]) <=> won
                /\ Get(e.payouts, "win", 0)
                      = IF won THEN (bet.amount * price) \div 100 ELSE 0
                /\ Get(e.payouts, "win", 0) >= 0
                /\ DOMAIN sample_bet \subseteq {"win", "place"}
                      => ~e.raised /\ HasOutcome(prediction_outcomes, i)

\* C13, the case: a Win bet won on a winner without a fixed-win price and was
\* paid at the tote price, and one won on a winner with no price at all
C13_PaidAtTote ==
    /\ evaluations # <<>>
    /\ DOMAIN sample_bet = {"win"}
    /\ Truthy(evaluations[1].bet_results["win"])
    /\ LET prices == sample_result.finishing_order[1].prices
       IN  \/ /\ "fixed_win" \notin DOMAIN prices
              /\ "tote_win" \in DOMAIN prices
              /\ evaluations[1].payouts["win"] > 0
           \/ /\ DOMAIN prices = {}
              /\ evaluations[1].payouts["win"] = 0

\* the horse lists that are permutations of one list
Rearranged(horses) ==
    {[i \in 1..Len(horses) |-> horses[p[i]]] :
        p \in Permutations(1..Len(horses))}

\* the finishing sequence the parser would report for a sampled order
Reported(order) ==
    SampleResult(order, ToteOnly, ToteOnly, EmptyDict).finishing_order

\* C14: on every finishing sequence the result of a Quinella or QPS bet is
\* the same for every permutation of its horse list; an Exacta, Trifecta or
\* First4 bet that won loses under every other permutation of its horses, and
\* for each of these types the bet on the first finishers in their order wins
\* on the full finishing sequence and its reversal loses
OrderMattersForOrderedBets ==
    /\ \A i \in 1..Len(evaluations) :
          \A t \in DOMAIN sample_bet :
              LET e == evaluations[i]
                  won == Truthy(e.bet_results[t])
              IN  /\ t \in {"quinella", "qps"} =>
                        \A h \in Rearranged(sample_bet[t].horses) :
                            Truthy(BetResult(t, Bet(h, sample_bet[t].amount),
                                             e.finishing_order)) <=> won
                  /\ (t \in {"exacta", "trifecta", "first4"} /\ won) =>
                        \A h \in Rearranged(sample_bet[t].horses) :
                            h # sample_bet[t].horses =>
                                ~Truthy(BetResult(t, Bet(h, sample_bet[t].amount),
                                                  e.finishing_order))
    /\ \A t \in {"exacta", "trifecta", "first4"} :
          LET horses == Take(InOrder, CombinationLength(t))
              fo == Reported([parsed |-> InOrder, finished |-> InOrder])
          IN  /\ Reverse(horses) \in Rearranged(horses)
              /\ Truthy(BetResult(t, Bet(horses, 500), fo))
              /\ ~Truthy(BetResult(t, Bet(Reverse(horses), 500), fo))

\* C14, the case: a Quinella bet won on finishers that came in in the
\* opposite order of its horse list
C14_QuinellaReversed ==
    /\ evaluations # <<>>
    /\ "quinella" \in DOMAIN sample_bet
    /\ Truthy(evaluations[1].bet_results["quinella"])
    /\ sample_bet["quinella"].horses[1] = sample_result.finishing_order[2].number
    /\ sample_bet["quinella"].horses[2] = sample_result.finishing_order[1].number

\* the rate a dividend states, bare or as a currency amount, in hundredths
Rate(dividends, key) ==
    IF key \notin DOMAIN dividends THEN 0
    ELSE IF dividends[key].kind = "num" THEN dividends[key].num
    ELSE IF Malformed(dividends[key]) THEN 0
    ELSE ParseCurrency(dividends[key].amount)

\* C15: settled by the results service, a QPS bet wins iff at least two of
\* its horses are among the first three finishers, whatever the length of
\* the finishing sequence, and a winning bet is paid stake x the "qps"
\* dividend
QpsSettled ==
    \A i \in 1..Len(evaluations) :
        ("qps" \in DOMAIN sample_bet /\ sample_path = "results") =>
            LET e == evaluations[i]
                bet == sample_bet["qps"]
                fo == e.finishing_order
                top_three == {fo[k].number :
                                 k \in 1..(IF Len(fo) < 3 THEN Len(fo) ELSE 3)}
                won == Cardinality(Range(bet.horses) \cap top_three) >= 2
            IN  /\ Truthy(e.bet_results["qps"]) <=> won
                /\ (won /\ MalformedTypes = {}) =>
                      /\ ~e.raised
                      /\ Get(e.payouts, "qps", 0)
                            = (bet.amount * Rate(sample_result.dividends, "qps"))
                                 \div 100

\* C15, the case: a QPS bet with one horse outside the first three won and was
\* paid on a bare-number dividend
C15_QpsPaid ==
    /\ evaluations # <<>>
    /\ sample_path = "results"
    /\ "qps" \in DOMAIN sample_bet
    /\ Truthy(evaluations[1].bet_results["qps"])
    /\ \E k \in 1..Len(sample_bet["qps"].horses) :
          sample_bet["qps"].horses[k]
              \notin Range(Numbers(sample_result.finishing_order, 3))
    /\ Get(evaluations[1].payouts, "qps", 0) > 0

\* the dividend shapes a copy of evaluate_prediction multiplies without an
\* exception: the results service bare numbers, evaluate_all_results.py
\* records, evaluate_pending.py both
ReadsShape(path, dividend) ==
    CASE path = "results" -> dividend.kind = "num"
      [] path = "all" -> dividend.kind = "dict"
      [] OTHER -> TRUE

\* C16: a First4 bet wins iff there are at least four finishers and the
\* numbers of the first four, in order, are the bet's four horses; a winning
\* bet is paid stake x the First4 dividend, whether the result carries it
\* under "first4" or under "first_4"
First4Settled ==
    \A i \in 1..Len(evaluations) :
        "first4" \in DOMAIN sample_bet =>
            LET e == evaluations[i]
                bet == sample_bet["first4"]
                fo == e.finishing_order
                won == /\ Len(fo) >= 4
                       /\ \A k \in 1..4 : fo[k].number = bet.horses[k]
            IN  /\ Truthy(e.bet_results["first4"]) <=> won
                /\ \A key \in DOMAIN sample_result.dividends :
                      (/\ won
                       /\ key \in DividendKeys("first4")
                       /\ ~Malformed(sample_result.dividends[key])
                       /\ ReadsShape(sample_path, sample_result.dividends[key]))
                      => /\ ~e.raised
                         /\ Get(e.payouts, "first4", 0)
                               = (bet.amount * Rate(sample_result.dividends, key))
                                    \div 100

\* C16, the case: a First4 bet won on four finishers and was paid
C16_First4Paid ==
    /\ evaluations # <<>>
    /\ "first4" \in DOMAIN sample_bet
    /\ Len(sample_result.finishing_order) = 4
    /\ Truthy(evaluations[1].bet_results["first4"])
    /\ Get(evaluations[1].payouts, "first4", 0) > 0

\* C17: settled by the results service, a winning Exacta, Quinella, Trifecta,
\* First4 or QPS bet is paid stake x the dividend amount, both when the
\* dividend is a {combination, amount} record with a currency amount and when
\* it is a bare number; Trifecta(1,2,3, stake 5) on finishers 1,2,3 with
\* dividend "$45.60" is paid 228.00
NestedOrBareDividendPaid ==
    \A i \in 1..Len(evaluations) :
        \A t \in DOMAIN sample_bet \ {"win", "place"} :
            LET e == evaluations[i]
            IN  (/\ sample_path = "results"
                 /\ Truthy(e.bet_results[t])
                 /\ t \in DOMAIN sample_result.dividends
                 /\ ~Malformed(sample_result.dividends[t]))
                => /\ ~e.raised
                   /\ HasOutcome(prediction_outcomes, i)
                   /\ Get(e.payouts, t, 0)
                         = (sample_bet[t].amount * Rate(sample_result.dividends, t))
                              \div 100
                   /\ (t = "trifecta" /\ sample_bet[t].amount = 500
                          /\ Rate(sample_result.dividends, t) = 4560)
                         => e.payouts[t] = 22800

\* C17, the case: the results service paid a winning Trifecta bet on a
\* bare-number dividend
C17_BarePaid ==
    /\ evaluations # <<>>
    /\ sample_path = "results"
    /\ "trifecta" \in DOMAIN sample_bet
    /\ "trifecta" \in DOMAIN sample_result.dividends
    /\ Truthy(evaluations[1].bet_results["trifecta"])
    /\ Get(evaluations[1].payouts, "trifecta", 0) = 22800

\* C18: in every stored outcome, on every path that stores one, the result of
\* a bet type the prediction carries no bet of is absent (null), and the
\* result of a bet that lost is false with payout 0
AbsentIsNullLostIsFalse ==
    \A i \in 1..Len(prediction_outcomes) :
        \A t \in BetTypeSet :
            LET row == prediction_outcomes[i]
                e == evaluations[row.prediction_id]
            IN  /\ t \notin DOMAIN sample_bet => row.result[t] = PyNone
                /\ (t \in DOMAIN sample_bet /\ ~Truthy(e.bet_results[t]))
                      => row.result[t] = 0 /\ row.payout[t] = 0

\* C18, the case: an outcome is stored for a prediction whose only bet lost
C18_StoredLost ==
    /\ prediction_outcomes # <<>>
    /\ \E t \in BetTypeSet :
          /\ DOMAIN sample_bet = {t}
          /\ ~Truthy(evaluations[1].bet_results[t])
          /\ prediction_outcomes[1].result[t] = 0

\* what a run of the settlement yields: per-type results, payouts, total stake
Yield(e) ==
    [raised |-> e.raised, bet_results |-> e.bet_results, payouts |-> e.payouts,
     total_bet_amount |-> e.total_bet_amount]

\* C19: a run of the settlement leaves the prediction's bets and the race
\* result (finishing sequence and dividends) as they were, and a second run
\* on the same inputs yields the results, payouts and total stake of the
\* first
SettlementIsPure ==
    [][/\ sample_bet' = sample_bet
       /\ sample_result' = sample_result
       /\ Len(evaluations) >= 1 =>
             Yield(evaluations'[Len(evaluations')]) = Yield(evaluations[1])]_vars

\* C19, the case: the settlement ran twice on the same bets and result
C19_RanTwice ==
    /\ Len(evaluations) = 2
    /\ ~evaluations[1].raised
    /\ Yield(evaluations[1]) = Yield(evaluations[2])
    /\ Len(prediction_outcomes) = 2

\* C20: a step that folds an outcome into the statistics stores that outcome,
\* and in the row of the outcome's agent adds 1 to total_predictions, the
\* number of bet types with a non-absent result to total_bets, the won and
\* lost ones among them to total_wins and total_losses, the outcome's stake,
\* payout and net to the totals, and sets the ROI to (new total payout - new
\* total stake) / new total stake (0 when that stake is 0); the rows of the
\* other agents stay as they are
FoldAddsOutcome ==
    [][agent_statistics' # agent_statistics =>
          /\ Len(prediction_outcomes') = Len(prediction_outcomes) + 1
          /\ LET row == prediction_outcomes'[Len(prediction_outcomes')]
                 agent == predictions'[row.prediction_id].agent
                 old == agent_statistics[agent]
                 new == agent_statistics'[agent]
                 present == {t \in BetTypeSet : row.result[t] # PyNone}
                 wins == {t \in present : row.result[t] = 1}
             IN  /\ new.total_predictions = old.total_predictions + 1
                 /\ new.total_bets = old.total_bets + Cardinality(present)
                 /\ new.total_wins = old.total_wins + Cardinality(wins)
                 /\ new.total_losses
                       = old.total_losses + Cardinality(present \ wins)
                 /\ new.total_bet_amount
                       = old.total_bet_amount + row.total_bet_amount
                 /\ new.total_payout = old.total_payout + row.total_payout
                 /\ new.net_profit_loss
                       = old.net_profit_loss + row.net_profit_loss
                 /\ new.roi_percentage
                       = IF new.total_bet_amount = 0 THEN [num |-> 0, den |-> 1]
                         ELSE [num |-> new.total_payout - new.total_bet_amount,
                               den |-> new.total_bet_amount]
                 /\ \A a \in Agents \ {agent} :
                       agent_statistics'[a] = agent_statistics[a]]_vars

\* C20, the case: two outcomes with a won and a lost bet each were folded
\* into the row of one agent
C20_FoldedTwice ==
    /\ agent_statistics[SampleAgent].total_predictions = 2
    /\ agent_statistics[SampleAgent].total_wins = 2
    /\ agent_statistics[SampleAgent].total_losses = 2
    /\ agent_statistics[SampleAgent].total_payout > 0

-----------------------------------------------------------------------------
(* The bet models *)

\* the arguments break a shape invariant of their variant
BreaksShape(input) ==
    \/ input.amount <= 0
    \/ input.variant = "exacta" /\ input.horses[1] = input.horses[2]
    \/ input.variant = "trifecta"
          /\ \E i, j \in 1..3 : i # j /\ input.horses[i] = input.horses[j]
    \/ input.variant = "quinella"
          /\ ~(Len(input.horses) = 2 /\ Distinct(input.horses))
    \/ input.variant = "first4"
          /\ ~(Len(input.horses) = 4 /\ Distinct(input.horses))
    \/ input.variant = "qps"
          /\ ~(Len(input.horses) \in 2..4 /\ Distinct(input.horses))

\* C21: constructing a bet of any variant from arguments that break a shape
\* invariant of the variant (equal or repeated horses, a wrong number of
\* horses, a stake of 0 or less) fails with a ValidationError and gives no
\* bet; arguments that break none give the bet
InvalidBetRejected ==
    bet_built # <<>> =>
        IF BreaksShape(bet_input)
        THEN /\ bet_built[1].raised = "ValidationError"
             /\ bet_built[1].value = <<>>
        ELSE /\ bet_built[1].raised = "none"
             /\ Len(bet_built[1].value) = 1

\* C21, the case: a QPS bet on five distinct horses with a positive stake was
\* rejected
C21_RejectedQps ==
    /\ bet_built # <<>>
    /\ bet_input.variant = "qps"
    /\ Len(bet_input.horses) = 5
    /\ Distinct(bet_input.horses)
    /\ bet_input.amount > 0
    /\ bet_built[1].raised = "ValidationError"

-----------------------------------------------------------------------------
(* The dry run *)

\* C22: a step of the recovery tool run with --dry-run, whatever the pending
\* predictions and whatever the fetch gave, writes no outcome record and
\* changes no agent's statistics row
DryRunWritesNothing ==
    [][tool.name = "dry_run" =>
          /\ prediction_outcomes' = prediction_outcomes
          /\ agent_statistics' = agent_statistics]_vars

\* C22, the case: a dry run is past a race of its list (a prediction older
\* than one still on the list is off the list) and that race's prediction
\* is still without an outcome
C22_DryRunPastARace ==
    /\ tool.name = "dry_run"
    /\ \E i \in 1..Len(predictions) :
          /\ ~HasOutcome(prediction_outcomes, predictions[i].prediction_id)
          /\ \A g \in Range(tool.races) : g.race_url # predictions[i].race_url
          /\ \E g \in Range(tool.races) : \E q \in Range(g.predictions) :
                q.prediction_id > predictions[i].prediction_id

-----------------------------------------------------------------------------
(* The fetches of a tick and of a tool run *)

\* the results service or a manual tool over a store that does not fail: a
\* behaviour is one of the service (no tool has started, every prediction is
\* of the monitored race) or one of a tool (the service has not started), as
\* the two share nothing but the database
OnlyMonitored ==
    \A k \in 1..Len(predictions) : predictions[k].race_url = monitored

\* a step of the service: no tool has started
ServiceStep == tool = Idle /\ run_fetches = <<>> /\ OnlyMonitored

\* a step of a tool or of an agent: the service has not started
ManualStep == now = 0 /\ scheduled_checks = <<>>

FetchNext ==
    \/ ServiceStep /\ Schedule(monitored)
    \/ ServiceStep /\ Tick
    \/ ServiceStep /\ BeginCheck
    \/ \E kind \in FetchKinds : ServiceStep /\ FinishCheck(kind, NoFault)
    \/ \E agent \in Agents :
          ServiceStep /\ SavePrediction(agent, monitored, "iso")
    \/ \E agent \in Agents, r \in Races :
          ManualStep /\ SavePrediction(agent, r, "iso")
    \/ \E name \in ToolNames : ManualStep /\ ToolStart(name)
    \/ \E kind \in FetchKinds : ManualStep /\ ToolRace(kind, NoFault)

FetchSpec == Init /\ [][FetchNext]_vars

\* the race whose fetch the step goes on from
FetchedRace == IF inflight # NoRace THEN inflight ELSE Head(tool.races).race_url

-----------------------------------------------------------------------------
(* The watch set against the database *)

\* the target check time of the race is not more than 24 hours past
WithinDay(r) == now - TargetInstant(r) <= DayMinutes

\* C24: at every tick every race with a prediction that has no outcome and a
\* known start time, its target not more than 24 hours past, is in the watch
\* set unless it has been abandoned, whatever the order of messages,
\* prediction writes, checks and restarts
OutstandingIsWatched ==
    log.op = "tick" =>
        \A r \in Races :
            (Outstanding(r) /\ WithinDay(r) /\ r \notin abandoned)
                => r \in Keys(scheduled_checks)

\* C24, the case: at a tick the monitored race has a prediction without an
\* outcome, has not been abandoned and is not watched
C24_UnwatchedAtTick ==
    /\ log.op = "tick"
    /\ Outstanding(monitored)
    /\ WithinDay(monitored)
    /\ monitored \notin abandoned
    /\ monitored \notin Keys(scheduled_checks)
    /\ prediction_outcomes = <<>>

-----------------------------------------------------------------------------
(* Abandonment *)

\* the service at the tick in which the last retry of r2 falls due: recovery
\* admitted the race twelve minutes ago, a prediction of it being without an
\* outcome, and every fetch since has failed
AbandonInit ==
    /\ now = 0
    /\ local_off \in LocalOffsets
    /\ monitored = "r2"
    /\ predictions = <<Prediction(1, "gemini", "r2",
                                  StartText(isoformat(race_start_time("r2"))),
                                  structured_bet_of("gemini", "r2"))>>
    /\ prediction_outcomes = <<>>
    /\ agent_statistics = [a \in Agents |-> ZeroStatistics]
    /\ scheduled_checks = <<Entry("r2", DT(local_off, NoTz), result_max_retries - 1)>>
    /\ races_to_check = <<"r2">>
    /\ inflight = NoRace
    /\ tool = Idle
    /\ published = <<>>
    /\ log = Log("tick", NoRace)
    /\ sample_bet = EmptyDict
    /\ sample_result = Fetched(NoRace, "none")
    /\ sample_path = "none"
    /\ evaluations = <<>>
    /\ bet_input = NoInput
    /\ bet_built = <<>>
    /\ tick_fetches = <<>>
    /\ run_fetches = <<>>
    /\ abandoned = {}
    /\ analyzed_races = {}
    /\ analysis_published = [r \in Races |-> 0]
    /\ check_published = [r \in Races |-> 0]

AbandonSpec == AbandonInit /\ [][Next]_vars

\* C25: once a race has been abandoned the scheduler does not fetch it again
\* and its predictions stay without an outcome, through later ticks and
\* restarts of the process, until it is triggered again
AbandonedIsTerminal ==
    [][\A r \in abandoned :
          /\ inflight' # r
          /\ \A k \in 1..Len(predictions) :
                (/\ predictions[k].race_url = r
                 /\ predictions[k].prediction_id \notin Settled(prediction_outcomes))
                    => predictions[k].prediction_id \notin Settled(prediction_outcomes')]_vars

\* C25, the case: after a restart the abandoned race is being fetched again
C25_FetchedAfterAbandon ==
    /\ monitored \in abandoned
    /\ inflight = monitored
    /\ tick_fetches = <<monitored>>

-----------------------------------------------------------------------------
(* The scan of a tick and the time zone of the host *)

\* the service on a host whose local time is UTC or Perth time
HostOffsets == {0, PerthOffset}

ZoneInit ==
    /\ now = 0
    /\ local_off \in HostOffsets
    /\ monitored \in Races
    /\ predictions = <<>>
    /\ prediction_outcomes = <<>>
    /\ agent_statistics = [a \in Agents |-> ZeroStatistics]
    /\ scheduled_checks = <<>>
    /\ races_to_check = <<>>
    /\ inflight = NoRace
    /\ tool = Idle
    /\ published = <<>>
    /\ log = Quiet
    /\ sample_bet = EmptyDict
    /\ sample_result = Fetched(NoRace, "none")
    /\ sample_path = "none"
    /\ evaluations = <<>>
    /\ bet_input = NoInput
    /\ bet_built = <<>>
    /\ tick_fetches = <<>>
    /\ run_fetches = <<>>
    /\ abandoned = {}
    /\ analyzed_races = {}
    /\ analysis_published = [r \in Races |-> 0]
    /\ check_published = [r \in Races |-> 0]

ZoneSpec == ZoneInit /\ [][Next]_vars

\* the UTC instant a check time stands for: an aware one minus its offset, a
\* naive one (written by retry_or_abandon from the host's clock) minus the
\* host's offset
UtcInstant(check_time) ==
    IF check_time.off = NoTz THEN check_time.wall - local_off
    ELSE check_time.wall - check_time.off

\* C26: the scan of a tick takes a watched race iff the instant of its check
\* time is at or before the current instant, both in UTC: no race is taken
\* before its target and none is left past the first tick after it
ScanOnUtcTimeline ==
    [][log'.op = "tick" =>
          \A i \in 1..Len(scheduled_checks) :
              (scheduled_checks[i].race_url \in Range(races_to_check'))
                  <=> (UtcInstant(scheduled_checks[i].check_time) <= now')]_vars

\* C26, the case: on a host in UTC a tick has passed over a watched race
\* whose target instant is not in the future
C26_LeftBehind ==
    /\ log.op = "tick"
    /\ local_off = 0
    /\ \E i \in 1..Len(scheduled_checks) :
          /\ scheduled_checks[i].check_time.off = PerthOffset
          /\ UtcInstant(scheduled_checks[i].check_time) <= now
          /\ scheduled_checks[i].race_url \notin Range(races_to_check)

-----------------------------------------------------------------------------
(* A schedule message during a check *)

\* a schedule message for the race in flight has arrived since its fetch began
ScheduledInFlight == inflight # NoRace /\ log = Log("scheduled", inflight)

\* C27: a schedule message for a race arriving while a check of the race
\* awaits its fetch is taken at once and is not lost: when the check ends the
\* race is resolved or is in the watch set, and the race a check or a retry
\* step looks up is always in the watch set
ScheduleDuringCheckKept ==
    [][/\ (inflight # NoRace /\ now < MaxTime) => ENABLED Schedule(inflight)
       /\ inflight # NoRace => inflight \in Keys(scheduled_checks)
       /\ \A i \in 1..Len(races_to_check) :
             races_to_check[i] \in Keys(scheduled_checks)
       /\ (ScheduledInFlight /\ CheckEnds) =>
             \/ log'.op = "resolved" /\ inflight \notin Keys(scheduled_checks')
             \/ /\ log'.op = "retry"
                /\ inflight \in Keys(scheduled_checks')
                /\ RetryCount(scheduled_checks', inflight) = 1]_vars

\* C27, the case: the fetch of a race is awaited, in a tick after the first,
\* and a schedule message for the race has just been taken
C27_ScheduledInFlight ==
    /\ ScheduledInFlight
    /\ tick_fetches = <<inflight>>
    /\ RetryCount(scheduled_checks, inflight) = 0
    /\ now > 1

-----------------------------------------------------------------------------
(* The copies of the settlement *)

\* the four copies: the results service, evaluate_pending.py,
\* evaluate_all_results.py and the /evaluate command
SettlementCopies == {"results", "pending", "all", "cmd"}

YieldOf(copy, structured_bet, race_result) ==
    Yield(IF copy = "cmd"
          THEN evaluate_prediction_for_cmd(structured_bet, race_result)
          ELSE EvaluationOn(copy, structured_bet, race_result))

\* C28: on every bet set and every race result the four copies of the
\* settlement give the same per-type results, the same per-type payouts and
\* the same total stake
CopiesAgree ==
    [][Len(evaluations') > Len(evaluations) =>
          \A copy \in SettlementCopies :
              YieldOf(copy, sample_bet, sample_result)
                  = Yield(evaluations'[Len(evaluations')])]_vars

\* C28, the case: the results service has settled an exacta bet as lost, the
\* finishers carrying no numbers, which evaluate_all_results.py settles,
\* without failing, as won
C28_CopiesDiffer ==
    /\ sample_path = "results"
    /\ Len(evaluations) = 1
    /\ ~evaluations[1].raised
    /\ "exacta" \in DOMAIN sample_bet
    /\ evaluations[1].bet_results["exacta"] = 0
    /\ ~YieldOf("all", sample_bet, sample_result).raised
    /\ YieldOf("all", sample_bet, sample_result).bet_results["exacta"] = 1

-----------------------------------------------------------------------------
(* The statistics rows *)

\* C29: in every reachable state the row of each agent has total_wins +
\* total_losses = total_bets, total_bets the sum of the seven placed
\* counters, total_wins the sum of the seven won counters, each won counter
\* at most its placed counter, and net_profit_loss = total_payout -
\* total_bet_amount
StatisticsConsistent ==
    \A a \in Agents :
        LET row == agent_statistics[a]
        IN  /\ row.total_wins + row.total_losses = row.total_bets
            /\ row.total_bets = SumValues(row.bets_placed)
            /\ row.total_wins = SumValues(row.bets_won)
            /\ \A t \in BetTypeSet : row.bets_won[t] <= row.bets_placed[t]
            /\ row.net_profit_loss = row.total_payout - row.total_bet_amount

\* C29, the case: two outcomes are folded into a row, a bet of which was
\* won and paid, and a bet of which has a result that is neither won nor lost
C29_FoldedWonAndVoid ==
    /\ agent_statistics[SampleAgent].total_predictions = 2
    /\ agent_statistics[SampleAgent].total_wins >= 1
    /\ agent_statistics[SampleAgent].total_payout > 0
    /\ \E t \in DOMAIN sample_bet : evaluations[1].bet_results[t] = PyNone

-----------------------------------------------------------------------------
(* The monitor's publications *)

\* C30: for each race the monitor publishes "ready for analysis" and
\* "schedule result check" at most once over any sequence of polls, polls in
\* which a step after the publish fails included, and a race marked analyzed
\* is passed over without a publish
PublishedAtMostOnce ==
    [][\A r \in Races :
          /\ analysis_published'[r] <= 1
          /\ check_published'[r] <= 1
          /\ r \in analyzed_races =>
                /\ analysis_published'[r] = analysis_published[r]
                /\ check_published'[r] = check_published[r]]_vars

\* C30, the case: a race is marked analyzed after its analysis was published
\* twice, the result check having been scheduled once
C30_PublishedTwice ==
    /\ "r1" \in analyzed_races
    /\ analysis_published["r1"] = 2
    /\ check_published["r1"] = 1

====
